---- MODULE Spec2Model ----
(***************************************************************************)
(* Model of the logflow behavioural-analytics collector                    *)
(* (src/opensource/app/ba.py, src/opensource/app/cache_utils.py).          *)
(*                                                                         *)
(* Text is a sequence of one-character strings, so that the character-wise *)
(* functions of the program (strip, replace, regular-expression            *)
(* substitution, sanitisation) are computed as the code computes them.     *)
(* A finite float is a fixed-point number of tenths (39 is 3.9).           *)
(***************************************************************************)
EXTENDS Integers, Sequences, FiniteSets, TLC

VARIABLES
    route_raw,      \* SpecRoute: the raw value handed to _normalize_route
    route_once,     \* SpecRoute: _normalize_route(route_raw)
    route_twice,    \* SpecRoute: _normalize_route(route_once)
    route_step,     \* SpecRoute: 0 = nothing applied, 1 = once, 2 = twice
    tag_value,      \* SpecTag: the tag value handed to _escape_tag
    tag_escaped,    \* SpecTag: _escape_tag(tag_value)
    tag_step,       \* SpecTag: 0 = nothing applied, 1 = escaped
    co_value,       \* SpecCoerce: the value handed to _coerce_int
    co_default,     \* SpecCoerce: the default handed to _coerce_int
    co_result,      \* SpecCoerce: outcome of the call
    co_step,        \* SpecCoerce: 0 = not called, 1 = called
    key,            \* SpecCache: the composite key
    cache_parts,    \* SpecCache: directory components of snapshot_cache_path
    cache_step,     \* SpecCache: 0 = not computed, 1 = computed
    pc,             \* Spec: position of the ingest handler
    body,           \* Spec: the request body
    has_client,     \* Spec: app.state.http_client is set
    ev,             \* Spec: locals of the handler after normalisation
    handed,         \* Spec: statements handed to _write_line, in order
    sent,           \* Spec: outbound write attempts, in order
    status,         \* Spec: response status (0 = not answered yet)
    req,            \* SpecQuery: the request of a query or capture endpoint
    q_pc,           \* SpecQuery: position of the endpoint's handler
    q_effects,      \* SpecQuery: outbound calls and cache writes, in order
    q_outcome,      \* SpecQuery: what the awaited outbound call did
    q_rows,         \* SpecQuery: rows _query_flux returned to the handler
    q_res,          \* SpecQuery: the handler's answer
    raw_boxes,      \* SpecBoxes: the boxes of a submitted skeleton
    boxes,          \* SpecBoxes: what _sanitize_boxes returned
    box_step,       \* SpecBoxes: 0 before the call, 1 after
    meta_file,      \* SpecMeta: meta.json of one cache key
    meta_pending,   \* SpecMeta: per handler, the metadata it is about to write
    meta_last,      \* SpecMeta: the metadata of the last completed write
    meta_writes,    \* SpecMeta: number of write attempts so far
    meta_read,      \* SpecMeta: what the last read returned
    scan_disk,      \* SpecScan: the meta.json files of the cache, in rglob order
    scan_filter,    \* SpecScan: the snapshot_hash argument of load_metadata
    scan_op,        \* SpecScan: the read that was made ("none" before it)
    scan_outcome,   \* SpecScan: what the read returned or raised
    sub_body,       \* SpecSubmit: the body posted to /ba/snapshot
    sub_before,     \* SpecSubmit: the cache before the submission
    sub_disk,       \* SpecSubmit: the cache: path, content file, metadata file
    sub_status,     \* SpecSubmit: status of the submission's answer (0 = none yet)
    sub_pc,         \* SpecSubmit: "idle", "submitted", "looked"
    media_req,      \* SpecSubmit: the query parameters of heatmap/media
    media_status,   \* SpecSubmit: status of heatmap/media (0 = none yet)
    sel_event,      \* SpecSelect: the event posted to /ba
    sel_store,      \* SpecSelect: the statements the store holds, tags unescaped
    sel_query,      \* SpecSelect: the query parameters of /heatmap
    sel_filters,    \* SpecSelect: the tag filters of the query
    sel_rows,       \* SpecSelect: the stored statements the query selects
    sel_pc,         \* SpecSelect: "idle", "stored", "queried"
    key_a,          \* SpecPaths: the composite key of a stored snapshot
    key_b,          \* SpecPaths: the composite key of another request
    parts_a,        \* SpecPaths: directory components of the path of key_a
    parts_b,        \* SpecPaths: directory components of the path of key_b
    paths_step,     \* SpecPaths: number of paths computed
    render_in,      \* SpecRender: what a renderer is given
    render_out,     \* SpecRender: what it gives back
    render_pc,      \* SpecRender: "idle", "walked", "built", "flat"
    csv_text,       \* SpecCsv: the text of a query response
    csv_rows,       \* SpecCsv: what _parse_flux_csv returned
    csv_pc          \* SpecCsv: "idle", "parsed"

routeVars  == <<route_raw, route_once, route_twice, route_step>>
tagVars    == <<tag_value, tag_escaped, tag_step>>
coerceVars == <<co_value, co_default, co_result, co_step>>
cacheVars  == <<key, cache_parts, cache_step>>
ingestVars == <<pc, body, has_client, ev, handed, sent, status>>
queryVars  == <<req, q_pc, q_effects, q_outcome, q_rows, q_res>>
boxVars    == <<raw_boxes, boxes, box_step>>
metaVars   == <<meta_file, meta_pending, meta_last, meta_writes, meta_read>>
scanVars   == <<scan_disk, scan_filter, scan_op, scan_outcome>>
submitVars == <<sub_body, sub_before, sub_disk, sub_status, sub_pc, media_req, media_status>>
selectVars == <<sel_event, sel_store, sel_query, sel_filters, sel_rows, sel_pc>>
pathVars   == <<key_a, key_b, parts_a, parts_b, paths_step>>
renderVars == <<render_in, render_out, render_pc>>
csvVars    == <<csv_text, csv_rows, csv_pc>>
vars == <<routeVars, tagVars, coerceVars, cacheVars, ingestVars, queryVars, boxVars, metaVars, scanVars, submitVars, selectVars, pathVars, renderVars, csvVars>>

----------------------------------------------------------------------------
(* Text helpers.                                                           *)

Digits == {"0", "1", "2", "3", "4", "5", "6", "7", "8", "9"}
HexLetters == {"a", "b", "c", "d", "e", "f", "A", "B", "C", "D", "E", "F"}
HexChars == Digits \cup HexLetters
UpperSeq == <<"A", "B", "C", "D", "E", "F", "G", "H", "I", "J", "K", "L", "M",
              "N", "O", "P", "Q", "R", "S", "T", "U", "V", "W", "X", "Y", "Z">>
LowerSeq == <<"a", "b", "c", "d", "e", "f", "g", "h", "i", "j", "k", "l", "m",
              "n", "o", "p", "q", "r", "s", "t", "u", "v", "w", "x", "y", "z">>
Whitespace == {" ", "\t", "\n", "\r"}

Range(s) == {s[i] : i \in 1..Len(s)}

MapSeq(F(_), s) == [i \in 1..Len(s) |-> F(s[i])]

RECURSIVE Flatten(_)
Flatten(ss) == IF ss = <<>> THEN <<>> ELSE Head(ss) \o Flatten(Tail(ss))

\* str.startswith / str.endswith for a one-character argument
StartsWith(s, c) == Len(s) > 0 /\ s[1] = c
EndsWith(s, c) == Len(s) > 0 /\ s[Len(s)] = c

\* str.lstrip(chars) / str.rstrip(chars) / str.strip(chars)
RECURSIVE LStrip(_, _)
LStrip(s, cs) == IF s # <<>> /\ Head(s) \in cs THEN LStrip(Tail(s), cs) ELSE s

RECURSIVE RStrip(_, _)
RStrip(s, cs) ==
    IF s # <<>> /\ s[Len(s)] \in cs THEN RStrip(SubSeq(s, 1, Len(s) - 1), cs) ELSE s

Strip(s, cs) == RStrip(LStrip(s, cs), cs)

\* str.replace(old, new) for a one-character old
RECURSIVE Replace(_, _, _)
Replace(s, old, new) ==
    IF s = <<>> THEN <<>>
    ELSE (IF Head(s) = old THEN new ELSE <<Head(s)>>) \o Replace(Tail(s), old, new)

\* str.lower()
LowerChar(c) ==
    IF \E i \in 1..Len(UpperSeq) : UpperSeq[i] = c
    THEN LowerSeq[CHOOSE i \in 1..Len(UpperSeq) : UpperSeq[i] = c]
    ELSE c

Lower(s) == MapSeq(LowerChar, s)

\* str.split(sep, 1)[0] for a one-character sep
RECURSIVE BeforeFirst(_, _)
BeforeFirst(s, sep) ==
    IF s = <<>> \/ Head(s) = sep THEN <<>>
    ELSE <<Head(s)>> \o BeforeFirst(Tail(s), sep)

\* str.split(sep) for a one-character sep
RECURSIVE SplitAcc(_, _, _)
SplitAcc(s, sep, cur) ==
    IF s = <<>> THEN <<cur>>
    ELSE IF Head(s) = sep THEN <<cur>> \o SplitAcc(Tail(s), sep, <<>>)
    ELSE SplitAcc(Tail(s), sep, Append(cur, Head(s)))

Split(s, sep) == SplitAcc(s, sep, <<>>)

\* number of consecutive characters of class cs in s from position i on
RECURSIVE RunLen(_, _, _)
RunLen(s, i, cs) ==
    IF i <= Len(s) /\ s[i] \in cs THEN 1 + RunLen(s, i + 1, cs) ELSE 0

\* every sequence over the elements of the sequence of pieces ps, of 1..n pieces
RECURSIVE Tuples(_, _)
Tuples(S, n) ==
    IF n = 0 THEN {<<>>}
    ELSE {<<x>> \o t : x \in S, t \in Tuples(S, n - 1)}

TuplesUpTo(S, n) == UNION {Tuples(S, k) : k \in 0..n}

----------------------------------------------------------------------------
(* JSON values as the handlers see them after request.json().              *)
(*   k = "absent"  the key is not in the object (dict.get gives None)      *)
(*   k = "null"    None                                                    *)
(*   k = "num"     a finite number, n tenths                               *)
(*   k = "inf" / "ninf" / "nan"   the non-finite numbers json.loads accepts *)
(*   k = "str"     a string, s its text                                    *)
(*   k = "list" / "dict"   a container                                     *)
(*   k = "bool"    true (n = 1) or false (n = 0)                             *)

JAbsent == [k |-> "absent", n |-> 0, s |-> <<>>]
JNull == [k |-> "null", n |-> 0, s |-> <<>>]
JNum(t) == [k |-> "num", n |-> t, s |-> <<>>]
JInf == [k |-> "inf", n |-> 0, s |-> <<>>]
JNegInf == [k |-> "ninf", n |-> 0, s |-> <<>>]
JNaN == [k |-> "nan", n |-> 0, s |-> <<>>]
JStr(t) == [k |-> "str", n |-> 0, s |-> t]
JList == [k |-> "list", n |-> 0, s |-> <<>>]
JDict == [k |-> "dict", n |-> 0, s |-> <<>>]
JBool(b) == [k |-> "bool", n |-> b, s |-> <<>>]

\* dict.get(key): an absent key reads as None
Get(v) == IF v.k = "absent" THEN JNull ELSE v

\* truth value of a JSON value (the "x or y" idiom)
Truthy(v) ==
    CASE v.k \in {"absent", "null"} -> FALSE
      [] v.k \in {"num", "bool"} -> v.n # 0
      [] v.k = "str" -> v.s # <<>>
      [] OTHER -> TRUE

\* a or b on JSON values
OrValue(a, b) == IF Truthy(a) THEN a ELSE b

\* str(value or "").strip() or fallback, for a value that is text or absent
TextOr(value, fallback) ==
    IF Truthy(value) /\ Strip(value.s, Whitespace) # <<>> THEN Strip(value.s, Whitespace)
    ELSE fallback

----------------------------------------------------------------------------
(* Route Normalizer: src/opensource/app/ba.py, _normalize_route.           *)

HexMin == 12

RouteId == <<"/", ":", "i", "d">>

\* Length of the match of SEGMENT_RE = /([0-9]+|[0-9a-fA-F]{12,}) at position
\* i of path (0 = no match).  The first alternative wins whenever the
\* character after the slash is a digit; both alternatives are greedy and
\* nothing anchors the end of the match to the end of the segment.
SegmentMatchLen(path, i) ==
    IF i > Len(path) \/ path[i] # "/" THEN 0
    ELSE IF RunLen(path, i + 1, Digits) >= 1 THEN 1 + RunLen(path, i + 1, Digits)
    ELSE IF RunLen(path, i + 1, HexChars) >= HexMin
         THEN 1 + RunLen(path, i + 1, HexChars)
    ELSE 0

\* SEGMENT_RE.sub("/:id", path): leftmost non-overlapping matches, scanning
\* from position i
RECURSIVE SegmentSubFrom(_, _)
SegmentSubFrom(path, i) ==
    IF i > Len(path) THEN <<>>
    ELSE IF SegmentMatchLen(path, i) > 0
         THEN RouteId \o SegmentSubFrom(path, i + SegmentMatchLen(path, i))
    ELSE <<path[i]>> \o SegmentSubFrom(path, i + 1)

SegmentSub(path) == SegmentSubFrom(path, 1)

\* variant: the slash is prepended whether or not the path has one
RoutePreparedAlwaysSlash(text) == <<"/">> \o BeforeFirst(text, "?")

\* the path before the substitution: query string cut, leading slash ensured
RoutePrepared(text) ==
    LET path == BeforeFirst(text, "?")
    IN  IF StartsWith(path, "/") THEN path ELSE <<"/">> \o path

\* variant: trailing slashes are kept
TrimNothing(path) == path

\* path.rstrip("/") when the path is longer than one character and ends with
\* a slash
TrimTrailingSlash(path) ==
    IF Len(path) > 1 /\ EndsWith(path, "/") THEN RStrip(path, {"/"}) ELSE path

\* _normalize_route(raw), raw a text or None; the result is a text
NormalizeRoute(raw) ==
    IF ~Truthy(raw) THEN <<"/">>
    ELSE LET path == TrimTrailingSlash(SegmentSub(RoutePrepared(raw.s)))
         IN  IF path = <<>> THEN <<"/">> ELSE path

\* Path segments the raw values are built from: numeric, numeric prefix,
\* 12 and 13 hex characters, 11 hex characters, 12 hex characters followed by
\* a non-hex one, 12 hex characters starting with a digit, plain text, the
\* token itself, empty (repeated or trailing slash), a query string after a
\* segment and after a slash.
RoutePieces ==
    { <<"4", "8", "2">>,
      <<"4", "8", "2", "x">>,
      <<"a", "b", "c", "d", "e", "f", "A", "B", "C", "D", "E", "F">>,
      <<"a", "1", "b", "2", "c", "3", "d", "4", "e", "5", "f", "6", "0">>,
      <<"a", "b", "c", "d", "e", "f", "0", "1", "2", "3", "4">>,
      <<"a", "b", "c", "d", "e", "f", "0", "1", "2", "3", "4", "5", "z">>,
      <<"1", "a", "2", "b", "3", "c", "4", "d", "5", "e", "6", "f">>,
      <<"u", "s", "e", "r">>,
      <<":", "i", "d">>,
      <<>>,
      <<"e", "?", "q", "=", "1">>,
      <<"?", "x">> }

MaxSegs == 2

\* a raw path of 1..MaxSegs pieces, each preceded by a slash
RECURSIVE JoinSlash(_)
JoinSlash(ps) == IF ps = <<>> THEN <<>> ELSE <<"/">> \o Head(ps) \o JoinSlash(Tail(ps))

RouteTexts ==
    LET joined == {JoinSlash(ps) : ps \in TuplesUpTo(RoutePieces, MaxSegs)}
    IN  joined \cup {Tail(t) : t \in joined \ {<<>>}}

RouteInputs == {JNull} \cup {JStr(t) : t \in RouteTexts}

RouteIdle ==
    /\ route_raw = JNull
    /\ route_once = <<>>
    /\ route_twice = <<>>
    /\ route_step = 0

RouteInit ==
    /\ route_raw \in RouteInputs
    /\ route_once = <<>>
    /\ route_twice = <<>>
    /\ route_step = 0

\* the handler normalises the raw route
RouteNormalize ==
    /\ route_step = 0
    /\ route_once' = NormalizeRoute(route_raw)
    /\ route_step' = 1
    /\ UNCHANGED <<route_raw, route_twice>>

\* a normalised route is handed to _normalize_route again (route_norm of a
\* later request)
RouteRenormalize ==
    /\ route_step = 1
    /\ route_twice' = NormalizeRoute(JStr(route_once))
    /\ route_step' = 2
    /\ UNCHANGED <<route_raw, route_once>>

----------------------------------------------------------------------------
(* Line Encoder: src/opensource/app/ba.py, _escape_tag.                    *)

\* variant: the backslash is doubled last, so the backslashes put in front of
\* comma, space and equals sign are doubled too
EscapeTagBackslashLast(text) ==
    LET t1 == Replace(text, ",", <<"\\", ",">>)
        t2 == Replace(t1, " ", <<"\\", " ">>)
        t3 == Replace(t2, "=", <<"\\", "=">>)
    IN  Replace(t3, "\\", <<"\\", "\\">>)

\* _escape_tag(value): the backslash is doubled first, then comma, space and
\* equals sign get a backslash, one str.replace pass each
EscapeTag(text) ==
    LET t1 == Replace(text, "\\", <<"\\", "\\">>)
        t2 == Replace(t1, ",", <<"\\", ",">>)
        t3 == Replace(t2, " ", <<"\\", " ">>)
    IN  Replace(t3, "=", <<"\\", "=">>)

EscapedChars == {"\\", ",", " ", "="}

\* line-protocol unescaping: one backslash in front of an escaped character
\* is removed
RECURSIVE Unescape(_)
Unescape(s) ==
    IF s = <<>> THEN <<>>
    ELSE IF Head(s) = "\\" /\ Len(s) >= 2 /\ s[2] \in EscapedChars
         THEN <<s[2]>> \o Unescape(SubSeq(s, 3, Len(s)))
    ELSE <<Head(s)>> \o Unescape(Tail(s))

MaxTagLen == 4

TagAlphabet == {"a", ",", "=", " ", "\\"}

TagInputs == TuplesUpTo(TagAlphabet, MaxTagLen)

TagIdle ==
    /\ tag_value = <<>>
    /\ tag_escaped = <<>>
    /\ tag_step = 0

TagInit ==
    /\ tag_value \in TagInputs
    /\ tag_escaped = <<>>
    /\ tag_step = 0

\* the encoder escapes a tag value
TagEscape ==
    /\ tag_step = 0
    /\ tag_escaped' = EscapeTag(tag_value)
    /\ tag_step' = 1
    /\ UNCHANGED tag_value

----------------------------------------------------------------------------
(* Numeric coercion: src/opensource/app/ba.py, _coerce_int.                *)

DigitSeq == <<"0", "1", "2", "3", "4", "5", "6", "7", "8", "9">>

DigitVal(c) == (CHOOSE i \in 1..10 : DigitSeq[i] = c) - 1

RECURSIVE DecValue(_)
DecValue(ds) ==
    IF ds = <<>> THEN 0 ELSE 10 * DecValue(SubSeq(ds, 1, Len(ds) - 1)) + DigitVal(ds[Len(ds)])

\* a float: cls "fin" with t tenths, "inf", "ninf", "nan"; or the exception
\* float() raised, "TypeError" or "ValueError"
Flt(cls, t) == [cls |-> cls, t |-> t]

\* float(text) for an unsigned body: digits with an optional fraction, or the
\* words inf, infinity and nan in any case; the model keeps one fractional
\* digit, and exponents are not among the inputs
ParseUnsigned(u) ==
    LET ip == SubSeq(u, 1, RunLen(u, 1, Digits))
        rest == SubSeq(u, Len(ip) + 1, Len(u))
        fr == IF rest # <<>> /\ Head(rest) = "." THEN Tail(rest) ELSE <<>>
    IN  IF Lower(u) \in {<<"i", "n", "f">>, <<"i", "n", "f", "i", "n", "i", "t", "y">>}
        THEN Flt("inf", 0)
        ELSE IF Lower(u) = <<"n", "a", "n">> THEN Flt("nan", 0)
        ELSE IF /\ (rest = <<>> \/ Head(rest) = ".")
                /\ Range(fr) \subseteq Digits
                /\ Len(ip) + Len(fr) >= 1
             THEN Flt("fin", 10 * DecValue(ip) + (IF fr = <<>> THEN 0 ELSE DigitVal(fr[1])))
        ELSE Flt("ValueError", 0)

Negate(f) ==
    CASE f.cls = "fin" -> Flt("fin", 0 - f.t)
      [] f.cls = "inf" -> Flt("ninf", 0)
      [] OTHER -> f

\* float(text): surrounding whitespace is ignored, one sign is allowed
ParseFloat(text) ==
    LET u == Strip(text, Whitespace)
    IN  IF u # <<>> /\ Head(u) = "-" THEN Negate(ParseUnsigned(Tail(u)))
        ELSE IF u # <<>> /\ Head(u) = "+" THEN ParseUnsigned(Tail(u))
        ELSE ParseUnsigned(u)

\* float(value)
FloatOf(v) ==
    CASE v.k = "num" -> Flt("fin", v.n)
      [] v.k = "bool" -> Flt("fin", 10 * v.n)
      [] v.k = "inf" -> Flt("inf", 0)
      [] v.k = "ninf" -> Flt("ninf", 0)
      [] v.k = "nan" -> Flt("nan", 0)
      [] v.k = "str" -> ParseFloat(v.s)
      [] OTHER -> Flt("TypeError", 0)

\* int(f) of a finite float: truncation toward zero
Trunc(t) == IF t >= 0 THEN t \div 10 ELSE 0 - ((0 - t) \div 10)

\* outcome of a call: the value returned, or the exception that escapes it
Returned(val) == [raised |-> "none", val |-> val]
Raised(exc) == [raised |-> exc, val |-> 0]

\* int(float(value)): int() raises ValueError on NaN and OverflowError on an
\* infinity
IntOfFloat(v) ==
    LET f == FloatOf(v)
    IN  CASE f.cls = "fin" -> Returned(Trunc(f.t))
          [] f.cls = "nan" -> Raised("ValueError")
          [] f.cls \in {"inf", "ninf"} -> Raised("OverflowError")
          [] OTHER -> Raised(f.cls)

\* _coerce_int(value, default): only TypeError and ValueError are caught
CoerceInt(value, default) ==
    LET r == IntOfFloat(value)
    IN  IF r.raised \in {"TypeError", "ValueError"} THEN Returned(default) ELSE r

MaxTenths == 25

CoerceTexts ==
    { <<"3", ".", "9">>, <<"a", "b", "c">>, <<>>, <<" ", "7", " ">>,
      <<"-", "2", ".", "5">>, <<"-", "0", ".", "5">>, <<"1", "2">>, <<".">>,
      <<"i", "n", "f">>, <<"-", "I", "n", "f", "i", "n", "i", "t", "y">>,
      <<"n", "a", "n">>, <<"4", "8", "2", "x">> }

CoerceInputs ==
    {JNull, JList, JDict, JNaN, JInf, JNegInf}
        \cup {JNum(t) : t \in (0 - MaxTenths)..MaxTenths}
        \cup {JStr(t) : t \in CoerceTexts}

CoerceIdle ==
    /\ co_value = JNull
    /\ co_default = 0
    /\ co_result = Returned(0)
    /\ co_step = 0

CoerceInit ==
    /\ co_value \in CoerceInputs
    /\ co_default \in {-1, 0}
    /\ co_result = Returned(0)
    /\ co_step = 0

\* a caller coerces a raw field
CoerceCall ==
    /\ co_step = 0
    /\ co_result' = CoerceInt(co_value, co_default)
    /\ co_step' = 1
    /\ UNCHANGED <<co_value, co_default>>

----------------------------------------------------------------------------
(* Snapshot Cache: src/opensource/app/cache_utils.py, safe_cache_segment   *)
(* and snapshot_cache_path.                                                *)

MaxSegmentLen == 80

Default == <<"d", "e", "f", "a", "u", "l", "t">>

\* characters str.isalnum accepts: ASCII letters and digits, and letters and
\* digits outside ASCII (named here by their code points: e with acute
\* accent, Arabic-Indic digit three)
NonAsciiAlnum == {"U+00E9", "U+0663"}
IsAlnum(c) ==
    \/ c \in Digits
    \/ \E i \in 1..Len(UpperSeq) : c = UpperSeq[i] \/ c = LowerSeq[i]
    \/ c \in NonAsciiAlnum

SanitizeChar(ch) ==
    IF IsAlnum(ch) \/ ch \in {"-", "_", "."} THEN <<ch>>
    ELSE IF ch = "/" THEN <<"_", "_">>
    ELSE <<"_">>

\* safe_cache_segment(value)
SafeCacheSegment(value) ==
    LET t0 == Strip(IF value = <<>> THEN Default ELSE value, Whitespace)
        t1 == IF t0 = <<>> THEN Default ELSE t0
        t2 == Replace(t1, "\\", <<"/">>)
        cleaned == Strip(Flatten(MapSeq(SanitizeChar, t2)), {"_"})
        nonempty == IF cleaned = <<>> THEN Default ELSE cleaned
    IN  SubSeq(nonempty, 1, IF Len(nonempty) < MaxSegmentLen THEN Len(nonempty) ELSE MaxSegmentLen)

OrText(value, fallback) == IF value = <<>> THEN fallback ELSE value

\* snapshot_cache_path(...): the directory components joined to the cache
\* root, in order (the file name index.html follows them)
SnapshotCacheParts(route_norm, snapshot_hash, vp_bucket, grid_id, section) ==
    LET found == SelectSeq(Split(route_norm, "/"), LAMBDA part : part # <<>>)
        route_parts == IF found = <<>> THEN << <<"r", "o", "o", "t">> >> ELSE found
    IN  << SafeCacheSegment(OrText(snapshot_hash, Default)) >>
            \o MapSeq(SafeCacheSegment, route_parts)
            \o << SafeCacheSegment(OrText(vp_bucket, <<"a", "n", "y">>)),
                  SafeCacheSegment(OrText(grid_id, <<"g", "r", "i", "d">>)),
                  SafeCacheSegment(OrText(section, <<"a", "l", "l">>)) >>

\* values of key components: traversal attempts, separators, blank and
\* ordinary text, a letter outside ASCII, a text one character longer than
\* a segment may be
KeyTexts ==
    { <<".", ".">>, <<".", ".", "/", ".", ".">>, <<"a", "/", "b">>, <<"a", "\\", "b">>,
      <<>>, <<" ">>, <<"1", "2", "x", "8">>, <<"c", "a", "f", "U+00E9">>,
      [i \in 1..(MaxSegmentLen + 1) |-> "a"] }

RouteNormTexts ==
    { <<"/">>, <<"/", ".", ".">>, <<"/", "a", "/", ".", ".", "/", "b">>,
      <<"/", "a", "\\", ".", ".", "\\", "b">>, <<"/", "u", "s", "e", "r", "/", ":", "i", "d">> }

Keys ==
    [route_norm : RouteNormTexts, snapshot_hash : KeyTexts, vp_bucket : KeyTexts,
     grid_id : KeyTexts, section : KeyTexts]

NoKey ==
    [route_norm |-> <<>>, snapshot_hash |-> <<>>, vp_bucket |-> <<>>,
     grid_id |-> <<>>, section |-> <<>>]

CacheIdle ==
    /\ key = NoKey
    /\ cache_parts = <<>>
    /\ cache_step = 0

CacheInit ==
    /\ key \in Keys
    /\ cache_parts = <<>>
    /\ cache_step = 0

\* a handler derives the cache path of a composite key
CachePath ==
    /\ cache_step = 0
    /\ cache_parts' = SnapshotCacheParts(key.route_norm, key.snapshot_hash,
                                         key.vp_bucket, key.grid_id, key.section)
    /\ cache_step' = 1
    /\ UNCHANGED key

----------------------------------------------------------------------------
(* Ingest endpoint: src/opensource/app/ba.py, ingest and _write_line.      *)

Now == 1000

Heartbeat == <<"h", "e", "a", "r", "t", "b", "e", "a", "t">>
Click == <<"c", "l", "i", "c", "k">>
EventText == <<"e", "v", "e", "n", "t">>

\* event_type = str(event.get("type") or "event").strip() or "event"
EventType(type) ==
    LET raw_event_type == Strip(IF Truthy(type) THEN type.s ELSE EventText, Whitespace)
    IN  IF raw_event_type = <<>> THEN EventText ELSE raw_event_type

\* variant: the comparison without lower()
IsHeartbeatExactCase(event_type) == event_type = Heartbeat

\* event_type.lower() == "heartbeat"
IsHeartbeat(event_type) == Lower(event_type) = Heartbeat

\* the loop over ("ts", "timestamp"): the first key that is present and
\* converts wins, TypeError and ValueError move on to the next key, any
\* other exception escapes; the wall clock is the fallback
ResolveTimestamp(event) ==
    LET first == IF event.ts.k = "absent" THEN Raised("ValueError") ELSE IntOfFloat(event.ts)
        second == IF event.timestamp.k = "absent" THEN Raised("ValueError")
                  ELSE IntOfFloat(event.timestamp)
    IN  IF first.raised \notin {"TypeError", "ValueError"} THEN first
        ELSE IF second.raised \notin {"TypeError", "ValueError"} THEN second
        ELSE Returned(Now)

\* the first exception of a sequence of outcomes, "none" when all returned
NoneRaised == <<Returned(0)>>

FirstRaised(rs) == Head(SelectSeq(rs, LAMBDA r : r.raised # "none") \o NoneRaised).raised

\* payload_data["x_bin"] = _coerce_int(x_bin_value, 0), only when the raw
\* value is not None
PayloadBin(raw) == IF Get(raw).k = "null" THEN Returned(0) ELSE CoerceInt(raw, 0)

\* coords.get(name) when coords is an object, None otherwise
RawCoord(event, name) == IF event.coords.isdict THEN Get(event.coords[name]) ELSE JNull

IsNone(v) == v.k \in {"absent", "null"}

\* has_coords = any(value is not None for value in (raw_cx, raw_cy, raw_px, raw_py))
HasCoords(event) == \E name \in {"x", "y", "pageX", "pageY"} : ~IsNone(RawCoord(event, name))

\* cx, cy, page_x, page_y
CoordValue(event, name) == CoerceInt(RawCoord(event, name), 0)

\* the coercions of the handler between the heartbeat check and the first
\* write, in program order
Coercions(event) ==
    << CoerceInt(Get(event.depth), 0),
       CoordValue(event, "x"), CoordValue(event, "y"),
       CoordValue(event, "pageX"), CoordValue(event, "pageY"),
       ResolveTimestamp(event),
       PayloadBin(event.x_bin), PayloadBin(event.y_bin) >>

\* the coordinate fields of the generic statement: cx and cy under
\* has_coords, px and py each under its own raw value
LineFieldOf == [cx |-> "x", cy |-> "y", px |-> "pageX", py |-> "pageY"]

LineCoordNames(event) ==
    (IF HasCoords(event) THEN {"cx", "cy"} ELSE {})
        \cup {f \in {"px", "py"} : ~IsNone(RawCoord(event, LineFieldOf[f]))}

LineCoords(event) ==
    [f \in LineCoordNames(event) |-> CoordValue(event, LineFieldOf[f]).val]

\* px and py of the click-aggregate statement
ClickCoords(event) ==
    [f \in {g \in {"px", "py"} : ~IsNone(RawCoord(event, LineFieldOf[g]))}
        |-> CoordValue(event, LineFieldOf[f]).val]

\* coords_payload of the debug payload
DebugCoords(event) ==
    [name \in {n \in {"x", "y", "pageX", "pageY"} : ~IsNone(RawCoord(event, n))}
        |-> CoordValue(event, name).val]

\* route and route_norm of the handler
EventRoute(event) == NormalizeRoute(event.route)

EventRouteNorm(event) ==
    IF TextOr(event.route_norm, <<>>) # <<>> THEN NormalizeRoute(JStr(TextOr(event.route_norm, <<>>)))
    ELSE EventRoute(event)

Unspecified == <<"u", "n", "s", "p", "e", "c", "i", "f", "i", "e", "d">>

\* click_tags, in the order of the list; vp is appended when vp_bucket is
\* not empty
ClickTagValues(event) ==
    [site |-> TextOr(event.site, Default),
     route |-> EventRoute(event),
     route_norm |-> EventRouteNorm(event),
     section |-> TextOr(event.section, Unspecified),
     snapshot |-> TextOr(event.snapshot_hash, Default),
     grid |-> TextOr(event.grid_id, Default),
     vp |-> TextOr(event.vp_bucket, <<>>)]

\* tag_str: the tags whose value is not empty, escaped
TagsWritten(values) ==
    [name \in {n \in DOMAIN values : values[n] # <<>>} |-> EscapeTag(values[name])]

ClickTags(event) == TagsWritten(ClickTagValues(event))

\* the tags of the generic statement
GenericTags(event, event_type) ==
    [site |-> EscapeTag(TextOr(event.site, Default)), t |-> EscapeTag(event_type),
     route |-> EscapeTag(EventRoute(event))]

\* the click-aggregate statement is built when the type is exactly "click"
\* and both bins, coerced with default -1, are >= 0
ClickBin(raw) == CoerceInt(Get(raw), -1)

ClickAggregate(event, event_type) ==
    /\ event_type = Click
    /\ ClickBin(event.x_bin).val >= 0
    /\ ClickBin(event.y_bin).val >= 0

GenericStatement(event, locals) ==
    [m |-> "logflow", ts |-> locals.timestamp_ms, x_bin |-> -1, y_bin |-> -1,
     coords |-> LineCoords(event), debug |-> DebugCoords(event),
     tags |-> GenericTags(event, locals.event_type)]

ClickStatement(event, locals) ==
    [m |-> "logflow_click", ts |-> locals.timestamp_ms,
     x_bin |-> ClickBin(event.x_bin).val, y_bin |-> ClickBin(event.y_bin).val,
     coords |-> ClickCoords(event), debug |-> <<>>,
     tags |-> ClickTags(event)]

TypeValues ==
    { JAbsent, JStr(<<>>), JStr(Heartbeat),
      JStr(<<" ", "H", "e", "a", "r", "t", "B", "e", "a", "t", "\t">>),
      JStr(<<"h", "e", "a", "r", "t", "b", "e", "a", "t", "s">>),
      JStr(Click), JStr(<<" ", "c", "l", "i", "c", "k">>),
      JStr(<<"C", "l", "i", "c", "k">>) }

DepthValues == {JAbsent, JStr(<<"3", ".", "9">>), JInf}
TsValues == {JAbsent, JNum(50), JStr(<<"a", "b", "c">>), JInf}
TimestampValues == {JAbsent, JNum(70)}
XBinValues ==
    { JAbsent, JNull, JNum(30), JNum(0), JNum(-5), JNum(-10),
      JStr(<<"a", "b", "c">>), JStr(<<"2">>), JInf }
YBinValues == {JAbsent, JNum(20), JNum(-10), JNaN, JList}

\* coords of an event: an object with any of x, y, pageX, pageY, or absent
Coords(x, y, pageX, pageY) == [isdict |-> TRUE, x |-> x, y |-> y, pageX |-> pageX, pageY |-> pageY]
NoCoords == [isdict |-> FALSE, x |-> JAbsent, y |-> JAbsent, pageX |-> JAbsent, pageY |-> JAbsent]

NoEvent ==
    [type |-> JAbsent, depth |-> JAbsent, ts |-> JAbsent, timestamp |-> JAbsent,
     x_bin |-> JAbsent, y_bin |-> JAbsent, coords |-> NoCoords,
     site |-> JAbsent, route |-> JAbsent, route_norm |-> JAbsent, snapshot_hash |-> JAbsent,
     vp_bucket |-> JAbsent, grid_id |-> JAbsent, section |-> JAbsent]

\* events that vary type, depth, time and bins
BaseEvents ==
    { [NoEvent EXCEPT !.type = t, !.depth = d, !.ts = a, !.timestamp = b, !.x_bin = x, !.y_bin = y]
        : t \in TypeValues, d \in DepthValues, a \in TsValues, b \in TimestampValues,
          x \in XBinValues, y \in YBinValues }

\* a click with both bins in range
ClickEvent == [NoEvent EXCEPT !.type = JStr(Click), !.x_bin = JNum(30), !.y_bin = JNum(20)]

\* events that vary ts and timestamp: absent, null, a number, numeric text,
\* text that is no number, NaN, an infinity
TimeEvents ==
    { [e EXCEPT !.ts = a, !.timestamp = b]
        : e \in {NoEvent, ClickEvent},
          a \in {JAbsent, JNull, JNum(50), JStr(<<"6", "0">>), JStr(<<"a", "b", "c">>), JNaN, JInf},
          b \in {JAbsent, JNull, JNum(70), JStr(<<"a", "b", "c">>), JInf} }

\* events that vary the coordinates: absent, zero, a number; null, text that
\* is no number and an infinity for x
CoordValues == {JAbsent, JNum(0), JNum(70)}

CoordEvents ==
    { [e EXCEPT !.coords = Coords(x, y, px, py)]
        : e \in {NoEvent, ClickEvent}, x \in CoordValues \cup {JNull, JStr(<<"a", "b", "c">>), JInf},
          y \in CoordValues, px \in CoordValues, py \in CoordValues }

\* events that vary the identifiers the click tags are made of
TagEvents ==
    { [ClickEvent EXCEPT !.site = s, !.route = r, !.route_norm = n, !.snapshot_hash = h,
                         !.vp_bucket = v, !.grid_id = g, !.section = c]
        : s \in {JAbsent, JStr(<<"s", "1">>)}, r \in {JAbsent, JStr(<<"a", "/">>)},
          n \in {JAbsent, JStr(<<"/", "b", " ">>)}, h \in {JAbsent, JStr(<<"h", "1">>)},
          v \in {JAbsent, JStr(<<"m">>)},
          g \in {JAbsent, JStr(<<"1", "2", "x", "8">>), JStr(<<"a", " ", "b">>)},
          c \in {JAbsent, JStr(<<"h", "e", "r", "o">>)} }

Events == BaseEvents \cup TimeEvents \cup CoordEvents \cup TagEvents

\* a body that is not JSON, a JSON value that is not an object, an object
Bodies ==
    {[kind |-> k, event |-> NoEvent] : k \in {"not_json", "non_object"}}
        \cup {[kind |-> "object", event |-> e] : e \in Events}

NoBody == [kind |-> "none", event |-> NoEvent]
NoLocals == [event_type |-> <<>>, depth |-> 0, timestamp_ms |-> 0]

\* outcome of one client.post: a response (whatever its status: the code
\* never looks at it) or an exception of the transport
Outcomes == {"ok", "rejected", "error"}

IngestIdle ==
    /\ pc = "off"
    /\ body = NoBody
    /\ has_client = FALSE
    /\ ev = NoLocals
    /\ handed = <<>>
    /\ sent = <<>>
    /\ status = 0

IngestInit ==
    /\ pc = "idle"
    /\ body = NoBody
    /\ has_client \in BOOLEAN
    /\ ev = NoLocals
    /\ handed = <<>>
    /\ sent = <<>>
    /\ status = 0

\* _write_line starts with the shared client when the application has one
EnterWrite == IF has_client THEN "shared" ELSE "temp"

\* the locals of the handler after the coercions rs
LocalsOf(event_type, rs) ==
    [event_type |-> event_type, depth |-> rs[1].val, timestamp_ms |-> rs[6].val]

\* the handler hands the generic statement to _write_line
HandOver(event, locals) ==
    /\ ev' = locals
    /\ handed' = <<GenericStatement(event, locals)>>
    /\ pc' = EnterWrite
    /\ UNCHANGED status

\* the handler ends with this status before any statement
Answer(code) ==
    /\ pc' = "done"
    /\ status' = code
    /\ UNCHANGED <<ev, handed>>

\* an exception of a coercion escapes the handler
Normalised(event, event_type, rs, raised) ==
    IF raised # "none" THEN Answer(500) ELSE HandOver(event, LocalsOf(event_type, rs))

\* ingest from the request up to the first await of _write_line
Receive ==
    /\ pc = "idle"
    /\ \E b \in Bodies :
        /\ body' = b
        /\ IF b.kind # "object" \/ IsHeartbeat(EventType(b.event.type))
           THEN Answer(204)
           ELSE Normalised(b.event, EventType(b.event.type), Coercions(b.event),
                           FirstRaised(Coercions(b.event)))
    /\ UNCHANGED <<has_client, sent>>

\* ingest after _write_line has returned: the click-aggregate statement
\* after the generic one, the 204 response otherwise
AfterWrite ==
    IF Len(handed) = 1 /\ ClickAggregate(body.event, ev.event_type)
    THEN /\ handed' = Append(handed, ClickStatement(body.event, ev))
         /\ pc' = EnterWrite
         /\ UNCHANGED status
    ELSE /\ pc' = "done"
         /\ status' = 204
         /\ UNCHANGED handed

Attempt(via, outcome) == [stmt |-> Len(handed), via |-> via, outcome |-> outcome]

\* does _write_line go on to the temporary client after the shared client's
\* post ended with this outcome
FallsThrough(outcome) == outcome = "error"

\* _write_line: the post through the shared client
WriteShared ==
    /\ pc = "shared"
    /\ \E o \in Outcomes :
        /\ sent' = Append(sent, Attempt("shared", o))
        /\ IF FallsThrough(o)
           THEN /\ pc' = "temp"
                /\ UNCHANGED <<handed, status>>
           ELSE AfterWrite
    /\ UNCHANGED <<body, has_client, ev>>

\* _write_line: the post through a temporary client
WriteTemp ==
    /\ pc = "temp"
    /\ \E o \in Outcomes :
        /\ sent' = Append(sent, Attempt("temp", o))
        /\ AfterWrite
    /\ UNCHANGED <<body, has_client, ev>>

----------------------------------------------------------------------------
(* Heatmap Aggregator: src/opensource/app/main.py, _build_heatmap_grid.    *)

\* a row of the store's answer: column values are texts, a missing column
\* is absent
Row(x, y, c, v) == [x_bin |-> x, y_bin |-> y, count |-> c, value |-> v]

\* count_value = entry.get("count") or entry.get("_value")
CountValue(entry) == IF Truthy(entry.count) THEN entry.count ELSE Get(entry.value)

\* the three values a row is read for, in program order
RowValues(entry) == <<Get(entry.x_bin), Get(entry.y_bin), CountValue(entry)>>

\* int(float(...)) of each of them
RowCoercions(entry) == [i \in 1..3 |-> IntOfFloat(RowValues(entry)[i])]

ZeroGrid(cols, rows) == [y \in 0..(rows - 1) |-> [x \in 0..(cols - 1) |-> 0]]

GridStart(cols, rows) ==
    [raised |-> "none", raw |-> ZeroGrid(cols, rows), max_count |-> 0, total_count |-> 0]

\* 0 <= x_idx < cols and 0 <= y_idx < rows
InRange(x_idx, y_idx, cols, rows) ==
    0 <= x_idx /\ x_idx < cols /\ 0 <= y_idx /\ y_idx < rows

\* raw_grid[y_idx][x_idx] += count, total_count += count, and the running
\* maximum compared with the cell just written
GridAdd(acc, x_idx, y_idx, count) ==
    [ raised |-> "none",
      raw |-> [acc.raw EXCEPT ![y_idx][x_idx] = @ + count],
      max_count |-> IF acc.raw[y_idx][x_idx] + count > acc.max_count
                    THEN acc.raw[y_idx][x_idx] + count ELSE acc.max_count,
      total_count |-> acc.total_count + count ]

\* one iteration of the loop over raw_rows, given the outcomes rs of the
\* three conversions and the first exception exc among them: TypeError and
\* ValueError skip the row, any other exception escapes the function
GridStep(acc, rs, exc, cols, rows) ==
    IF acc.raised # "none" THEN acc
    ELSE IF exc \in {"TypeError", "ValueError"} THEN acc
    ELSE IF exc # "none" THEN [acc EXCEPT !.raised = exc]
    ELSE IF ~InRange(rs[1].val, rs[2].val, cols, rows) THEN acc
    ELSE GridAdd(acc, rs[1].val, rs[2].val, rs[3].val)

RECURSIVE GridLoop(_, _, _, _)
GridLoop(acc, raw_rows, cols, rows) ==
    IF raw_rows = <<>> THEN acc
    ELSE GridLoop(GridStep(acc, RowCoercions(Head(raw_rows)),
                           FirstRaised(RowCoercions(Head(raw_rows))), cols, rows),
                  Tail(raw_rows), cols, rows)

\* a quotient of two integers as a float: the exact fraction in lowest terms
RECURSIVE Gcd(_, _)
Gcd(a, b) == IF b = 0 THEN a ELSE Gcd(b, a % b)

Abs(a) == IF a < 0 THEN 0 - a ELSE a

Quotient(n, d) ==
    IF n = 0 THEN <<0, 1>>
    ELSE <<(n \div Gcd(Abs(n), Abs(d))) * (IF d < 0 THEN -1 ELSE 1), Abs(d) \div Gcd(Abs(n), Abs(d))>>

\* normalized_grid: each cell divided by max_count when max_count > 0, the
\* all-zero grid otherwise
Normalized(acc, cols, rows) ==
    IF acc.max_count > 0
    THEN [y \in 0..(rows - 1) |-> [x \in 0..(cols - 1) |-> Quotient(acc.raw[y][x], acc.max_count)]]
    ELSE [y \in 0..(rows - 1) |-> [x \in 0..(cols - 1) |-> <<0, 1>>]]

\* what _build_heatmap_grid returns once the loop has ended in acc: the raw
\* grid, max_count, total_count and the normalized grid (the flattened cell
\* list repeats the counts and quotients of the two grids), or the exception
\* that escapes
GridResult(acc, cols, rows) ==
    [ raised |-> acc.raised, raw |-> acc.raw, max_count |-> acc.max_count,
      total_count |-> acc.total_count,
      grid |-> IF acc.raised = "none" THEN Normalized(acc, cols, rows)
               ELSE ZeroGrid(cols, rows) ]

\* _build_heatmap_grid after the rows have been fetched
BuildHeatmapGrid(raw_rows, cols, rows) ==
    GridResult(GridLoop(GridStart(cols, rows), raw_rows, cols, rows), cols, rows)

DigitText(n) == JStr(<<DigitSeq[n + 1]>>)

\* rows: the example of the specification, a negative and a zero count, a
\* non-numeric bin, a bin out of range, a count under _value, an infinite
\* bin, fractional bins, a missing bin, a NaN count
HeatRows ==
    { Row(DigitText(2), DigitText(1), DigitText(5), JAbsent),
      Row(DigitText(2), DigitText(1), DigitText(3), JAbsent),
      Row(DigitText(2), DigitText(1), JStr(<<"-", "3">>), JAbsent),
      Row(DigitText(0), DigitText(2), DigitText(0), JAbsent),
      Row(JStr(<<"a", "b", "c">>), DigitText(1), DigitText(5), JAbsent),
      Row(DigitText(4), DigitText(0), DigitText(7), JAbsent),
      Row(DigitText(1), DigitText(2), JStr(<<>>), DigitText(4)),
      Row(JStr(<<"i", "n", "f">>), DigitText(0), DigitText(1), JAbsent),
      Row(JStr(<<"1", ".", "9">>), DigitText(0), DigitText(2), JAbsent),
      Row(JStr(<<"-", "0", ".", "5">>), DigitText(0), DigitText(6), JAbsent),
      Row(JAbsent, DigitText(0), DigitText(1), JAbsent),
      Row(DigitText(0), DigitText(0), JStr(<<"n", "a", "n">>), JAbsent) }

MaxRows == 2

HeatRowLists == TuplesUpTo(HeatRows, MaxRows)

\* cols and rows of the grid, as _parse_grid_identifier hands them over
GridDims == {<<4, 4>>, <<2, 3>>}

----------------------------------------------------------------------------
(* Store queries: _query_flux of src/opensource/app/main.py and of         *)
(* src/app/api.py, the heatmap handler, the summary, top-routes and series *)
(* endpoints; capture requests: src/opensource/app/snapshot.py.            *)

\* _BUCKET_RE = ^\d+[smhd]$ under re.match: \d is any Unicode decimal digit,
\* and $ matches at the end of the text and before a newline that ends it
RegexDigits == Digits \cup {"U+0663"}

BucketUnits == {"s", "m", "h", "d"}

BucketMatch(bucket) ==
    LET n == RunLen(bucket, 1, RegexDigits)
    IN  /\ n >= 1
        /\ Len(bucket) > n
        /\ bucket[n + 1] \in BucketUnits
        /\ \/ Len(bucket) = n + 1
           \/ Len(bucket) = n + 2 /\ bucket[n + 2] = "\n"

\* urllib.parse.urlparse: tab, CR and LF are removed, a scheme is a letter
\* followed by letters, digits, "+", "-", "." up to the first ":", lowered;
\* the netloc is what follows "//" up to the first "/", "?" or "#"
Letters == Range(UpperSeq) \cup Range(LowerSeq)
SchemeChars == Letters \cup Digits \cup {"+", "-", "."}
UnsafeUrlChars == {"\t", "\r", "\n"}

RECURSIVE Without(_, _)
Without(s, cs) ==
    IF s = <<>> THEN <<>>
    ELSE (IF Head(s) \in cs THEN <<>> ELSE <<Head(s)>>) \o Without(Tail(s), cs)

\* number of leading characters of s outside cs
RECURSIVE RunOutside(_, _)
RunOutside(s, cs) ==
    IF s = <<>> \/ Head(s) \in cs THEN 0 ELSE 1 + RunOutside(Tail(s), cs)

UrlParse(text) ==
    LET url == Without(LStrip(text, Whitespace), UnsafeUrlChars)
        i == RunOutside(url, {":"})
        has_scheme == /\ i >= 1 /\ i < Len(url)
                      /\ url[1] \in Letters
                      /\ Range(SubSeq(url, 1, i)) \subseteq SchemeChars
        rest == IF has_scheme THEN SubSeq(url, i + 2, Len(url)) ELSE url
        slashes == Len(rest) >= 2 /\ rest[1] = "/" /\ rest[2] = "/"
        after == IF slashes THEN SubSeq(rest, 3, Len(rest)) ELSE rest
        n == IF slashes THEN RunOutside(after, {"/", "?", "#"}) ELSE 0
        tail == SubSeq(after, n + 1, Len(after))
    IN  [ scheme |-> IF has_scheme THEN Lower(SubSeq(url, 1, i)) ELSE <<>>,
          netloc |-> SubSeq(after, 1, n),
          path |-> SubSeq(tail, 1, RunOutside(tail, {"?", "#"})) ]

\* not (parsed.scheme not in {"http", "https"} or not parsed.netloc)
UrlValid(target_url) ==
    LET parsed == UrlParse(target_url)
    IN  parsed.scheme \in {<<"h", "t", "t", "p">>, <<"h", "t", "t", "p", "s">>} /\ parsed.netloc # <<>>

\* response.status_code >= 400
ErrorStatusMin == 400

\* what an awaited post can do: raise, or answer with a status and a body
Outcome(raised, code, content) == [raised |-> raised, status |-> code, body |-> content]

\* the except branch, or response.status_code >= 400
Failed(outcome) == outcome.raised \/ outcome.status >= ErrorStatusMin

\* a row of the store's answer as the API endpoints read it
ApiRow(route, time, value) == [route |-> route, time |-> time, value |-> value]

\* the loop the three API endpoints share: a row without _value is skipped
\* (top-routes also wants a route, series a _time), int(float(value)) gives
\* its count, ValueError skips the row, any other exception escapes
ApiSkips(endpoint, row) ==
    \/ Get(row.value).k = "null"
    \/ endpoint = "top_routes" /\ ~Truthy(row.route)
    \/ endpoint = "series" /\ Get(row.time).k = "null"

ApiPoint(row, r) == [route |-> row.route, time |-> row.time, count |-> r.val]

\* one iteration, given the counts so far and the outcome r of the conversion
ApiStep(acc, endpoint, row, r) ==
    IF acc.raised # "none" \/ ApiSkips(endpoint, row) \/ r.raised = "ValueError" THEN acc
    ELSE IF r.raised # "none" THEN Raised(r.raised)
    ELSE Returned(Append(acc.val, ApiPoint(row, r)))

RECURSIVE ApiLoop(_, _, _)
ApiLoop(acc, endpoint, rows) ==
    IF rows = <<>> THEN acc
    ELSE ApiLoop(ApiStep(acc, endpoint, Head(rows), IntOfFloat(Get(Head(rows).value))),
                 endpoint, Tail(rows))

ApiCounts(endpoint, rows) == ApiLoop(Returned(<<>>), endpoint, rows)

\* requests: the heatmap page with its grid, the three API endpoints (series
\* with its bucket token), a capture request with its URL; with or without
\* the application's shared HTTP client
BucketTexts ==
    { <<"5", "m">>, <<"1", "0", "s">>, <<"1", "2", "h">>, <<"1", "d">>, <<"m">>, <<"5">>, <<"5", "x">>,
      <<"5", "m", "m">>, <<" ", "5", "m">>, <<"5", "M">>, <<>>, <<"5", "m", "\n">>, <<"U+0663", "m">>,
      <<"5", "m", "\n", "\n">>, <<"5", "\n", "m">> }

UrlTexts ==
    { <<"h", "t", "t", "p", ":", "/", "/", "a", "/", "p">>, <<"h", "t", "t", "p", "s", ":", "/", "/", "a">>, <<"H", "T", "T", "P", ":", "/", "/", "a">>, <<" ", "h", "t", "t", "p", ":", "/", "/", "a", "/", " ">>,
      <<"f", "t", "p", ":", "/", "/", "a", "/", "p">>, <<"a", "/", "p">>, <<"/", "/", "a", "/", "p">>, <<"h", "t", "t", "p", ":", "/", "p">>, <<"h", "t", "t", "p", ":", "/", "/">>,
      <<"h", "t", "t", "p", ":", "/", "/", "/", "p">>, <<"h", "t", "t", "p", ":", "/", "/", ":", "8", "0", "/">>, <<"h", "t", "t", "p", ":", "/", "/", "u", "@", "/", "p">>, <<"h", "t", "t", "p", ":", "/", "/", "?", "q">>,
      <<"1", "h", "t", "t", "p", ":", "/", "/", "a">>, <<":", "/", "/", "a">>, <<>> }

NoText == <<"-">>

HeatRequests ==
    { [endpoint |-> "heatmap", bucket |-> NoText, url |-> NoText, dims |-> d, shared |-> c]
        : d \in GridDims, c \in BOOLEAN }

ApiRequests ==
    { [endpoint |-> e, bucket |-> NoText, url |-> NoText, dims |-> <<0, 0>>, shared |-> c]
        : e \in {"summary", "top_routes"}, c \in BOOLEAN }
    \cup
    { [endpoint |-> "series", bucket |-> b, url |-> NoText, dims |-> <<0, 0>>, shared |-> c]
        : b \in BucketTexts, c \in BOOLEAN }

CaptureRequests ==
    { [endpoint |-> "capture", bucket |-> NoText, url |-> u, dims |-> <<0, 0>>, shared |-> FALSE]
        : u \in UrlTexts }

Requests == HeatRequests \cup ApiRequests \cup CaptureRequests

NoRequest == [endpoint |-> "none", bucket |-> NoText, url |-> NoText, dims |-> <<0, 0>>, shared |-> FALSE]

\* what the store can do with a query; whatever the status, the answer has a
\* body, which may hold rows
StoreOutcomes ==
    {Outcome(TRUE, 0, "none")} \cup {Outcome(FALSE, n, "csv") : n \in {200, 399, 400, 503}}

ApiRows ==
    { ApiRow(JStr(<<"/", "a">>), JStr(<<"t", "1">>), DigitText(3)),
      ApiRow(JStr(<<"/", "a">>), JStr(<<"t", "0">>), JStr(<<"1", ".", "9">>)),
      ApiRow(JAbsent, JAbsent, DigitText(2)),
      ApiRow(JStr(<<"/", "b">>), JStr(<<"t", "2">>), JAbsent),
      ApiRow(JStr(<<"/", "b">>), JStr(<<"t", "2">>), JStr(<<"a", "b", "c">>)),
      ApiRow(JStr(<<"/", "b">>), JStr(<<"t", "2">>), JStr(<<"i", "n", "f">>)) }

ApiRowLists == TuplesUpTo(ApiRows, MaxRows)

\* what the capture worker can do with a job: raise, answer with an error
\* status, answer 200 with a body that is not JSON, with {"ok": false} or
\* with {"ok": true, ...}
WorkerOutcomes ==
    {Outcome(TRUE, 0, "none"), Outcome(FALSE, 400, "none"), Outcome(FALSE, 500, "none")}
    \cup {Outcome(FALSE, 200, b) : b \in {"invalid", "not_ok", "ok"}}

NoOutcome == Outcome(FALSE, 0, "none")

NoResult == [status |-> 0]

QueryIdle ==
    /\ req = NoRequest
    /\ q_pc = "off"
    /\ q_effects = <<>>
    /\ q_outcome = NoOutcome
    /\ q_rows = <<>>
    /\ q_res = NoResult

QueryInit ==
    /\ req = NoRequest
    /\ q_pc = "idle"
    /\ q_effects = <<>>
    /\ q_outcome = NoOutcome
    /\ q_rows = <<>>
    /\ q_res = NoResult

\* the client _query_flux posts with
ClientOf(r) == IF r.shared THEN "shared" ELSE "temp"

\* a request arrives and its handler runs up to its first await, or to the
\* HTTPException its validation raises
QueryRequest ==
    /\ q_pc = "idle"
    /\ \E r \in Requests :
         /\ req' = r
         /\ CASE r.endpoint = "series" /\ ~BucketMatch(r.bucket) ->
                   /\ q_res' = [status |-> 400]
                   /\ q_pc' = "done"
                   /\ UNCHANGED q_effects
              [] r.endpoint = "capture" /\ ~UrlValid(Strip(r.url, Whitespace)) ->
                   /\ q_res' = [status |-> 400]
                   /\ q_pc' = "done"
                   /\ UNCHANGED q_effects
              [] r.endpoint = "capture" /\ UrlValid(Strip(r.url, Whitespace)) ->
                   /\ q_effects' = <<[op |-> "mkdir", by |-> "handler"],
                                     [op |-> "worker_post", by |-> "temp"]>>
                   /\ q_pc' = "worker"
                   /\ UNCHANGED q_res
              [] OTHER ->
                   /\ q_effects' = <<[op |-> "store_post", by |-> ClientOf(r)]>>
                   /\ q_pc' = "store"
                   /\ UNCHANGED q_res
    /\ UNCHANGED <<q_outcome, q_rows>>

\* variant: the body of an error answer is parsed like any other
RowsOfFailedToo(outcome, answer) == answer

\* the rows _query_flux of the heatmap page returns: none when the post
\* raised or the status is an error
RowsOf(outcome, answer) == IF Failed(outcome) THEN <<>> ELSE answer

\* the heatmap page's answer: the grid of the rows, a 500 when building it
\* raised
PageOf(g) ==
    IF g.raised # "none" THEN [status |-> 500, raised |-> g.raised]
    ELSE [status |-> 200, raw |-> g.raw, grid |-> g.grid,
          max_count |-> g.max_count, total_count |-> g.total_count]

HeatAnswer(rows, dims) == PageOf(BuildHeatmapGrid(rows, dims[1], dims[2]))

\* HTTPException(status_code=502) of the API's _query_flux
ApiFailure == [status |-> 502]

\* an API endpoint's answer (the body is kept as the counts of the rows it
\* uses, before summing, grouping or sorting them)
BodyOf(r) ==
    IF r.raised # "none" THEN [status |-> 500, raised |-> r.raised]
    ELSE [status |-> 200, counts |-> r.val]

ApiAnswer(endpoint, rows) == BodyOf(ApiCounts(endpoint, rows))

\* the store's answer arrives and the handler runs to its end
StoreReply ==
    /\ q_pc = "store"
    /\ \E outcome \in StoreOutcomes :
         IF req.endpoint = "heatmap"
         THEN \E answer \in (IF outcome.raised THEN {<<>>} ELSE HeatRowLists) :
                /\ q_rows' = RowsOf(outcome, answer)
                /\ q_res' = HeatAnswer(q_rows', req.dims)
                /\ q_outcome' = outcome
         ELSE \E answer \in (IF outcome.raised THEN {<<>>} ELSE ApiRowLists) :
                /\ q_rows' = IF Failed(outcome) THEN <<>> ELSE answer
                /\ q_res' = IF Failed(outcome) THEN ApiFailure
                            ELSE ApiAnswer(req.endpoint, answer)
                /\ q_outcome' = outcome
    /\ q_pc' = "done"
    /\ UNCHANGED <<req, q_effects>>

\* the worker's answer arrives and the handler runs to its end: every
\* failure is a 502, a success writes the metadata and answers 200
WorkerReply ==
    /\ q_pc = "worker"
    /\ \E outcome \in WorkerOutcomes :
         /\ q_outcome' = outcome
         /\ IF ~Failed(outcome) /\ outcome.body = "ok"
            THEN /\ q_effects' = Append(q_effects, [op |-> "write_metadata", by |-> "handler"])
                 /\ q_res' = [status |-> 200]
            ELSE /\ q_res' = [status |-> 502]
                 /\ UNCHANGED q_effects
    /\ q_pc' = "done"
    /\ UNCHANGED <<req, q_rows>>

----------------------------------------------------------------------------
(* Skeleton boxes: src/opensource/app/cache_utils.py, _sanitize_boxes and  *)
(* _clamp_float.                                                           *)

ValidKinds ==
    { <<"a", "s", "i", "d", "e">>, <<"b", "u", "t", "t", "o", "n">>,
      <<"c", "a", "r", "d">>, <<"f", "o", "o", "t", "e", "r">>,
      <<"f", "o", "r", "m">>, <<"h", "e", "a", "d", "e", "r">>,
      <<"h", "e", "a", "d", "i", "n", "g">>, <<"i", "n", "p", "u", "t">>,
      <<"l", "i", "s", "t">>, <<"m", "a", "i", "n">>,
      <<"m", "e", "d", "i", "a">>, <<"n", "a", "v">>,
      <<"p", "a", "n", "e", "l">>, <<"s", "e", "c", "t", "i", "o", "n">>,
      <<"t", "a", "b", "l", "e">>, <<"t", "e", "x", "t">> }

Panel == <<"p", "a", "n", "e", "l">>

\* the comparisons of _clamp_float on a float: both are false of NaN, which
\* is returned as it is
Clamp(number, minimum, maximum) ==
    CASE number.cls = "ninf" -> Flt("fin", minimum)
      [] number.cls = "inf" -> Flt("fin", maximum)
      [] number.cls = "nan" -> number
      [] number.t < minimum -> Flt("fin", minimum)
      [] number.t > maximum -> Flt("fin", maximum)
      [] OTHER -> number

\* _clamp_float(value, minimum, maximum), given number = float(value): the
\* exception of float() escapes
ClampOutcome(number, minimum, maximum) ==
    IF number.cls \in {"TypeError", "ValueError"} THEN Raised(number.cls)
    ELSE Returned(Clamp(number, minimum, maximum))

ClampFloat(value, minimum, maximum) == ClampOutcome(FloatOf(value), minimum, maximum)

\* w <= 0 on a float (false of NaN)
NotPositive(f) == f.cls = "fin" /\ f.t <= 0

\* str(raw.get("kind") or "panel").lower(), replaced by "panel" when it is
\* not in _VALID_KINDS (text of a value that is not a string is never one)
KindOf(v) ==
    IF Truthy(v) /\ v.k = "str" /\ Lower(v.s) \in ValidKinds THEN Lower(v.s) ELSE Panel

\* a raw box: a JSON object with x, y, w, h and kind, or another JSON value
RawBox(x, y, w, h, kind) == [isdict |-> TRUE, x |-> x, y |-> y, w |-> w, h |-> h, kind |-> kind]
NotABox == [isdict |-> FALSE, x |-> JAbsent, y |-> JAbsent, w |-> JAbsent, h |-> JAbsent, kind |-> JAbsent]

\* the four clamped values of a raw box, in program order
BoxClamps(raw) ==
    [i \in 1..4 |-> ClampFloat(Get(<<raw.x, raw.y, raw.w, raw.h>>[i]), 0, 10)]

\* the box appended for a raw box whose clamped values are cs (tag and label
\* are copied text and left out)
BoxOf(raw, cs) ==
    [kind |-> KindOf(raw.kind), x |-> cs[1].val, y |-> cs[2].val, w |-> cs[3].val, h |-> cs[4].val]

\* len(boxes) >= 240: break
BoxLimit == 240

\* a raw box reaches boxes.append: it is an object, its four values convert
\* to floats (TypeError and ValueError skip it) and w and h are not <= 0
Appended(raw) ==
    /\ raw.isdict
    /\ FirstRaised(BoxClamps(raw)) = "none"
    /\ ~NotPositive(BoxClamps(raw)[3].val)
    /\ ~NotPositive(BoxClamps(raw)[4].val)

Take(s, n) == SubSeq(s, 1, IF Len(s) < n THEN Len(s) ELSE n)

\* the loop over raw_boxes: the boxes of the raw boxes that reach the append,
\* in order, up to the one that makes len(boxes) >= 240
\* a function on 1..n as the sequence of its values
ListOf(f) == <<>> \o f

BoxesOf(kept) == ListOf([i \in 1..Len(kept) |-> BoxOf(kept[i], BoxClamps(kept[i]))])

BoxLoop(raws) == BoxesOf(Take(SelectSeq(raws, Appended), BoxLimit))

\* the sort key item["w"] * item["h"], in hundredths; NaN when a factor is
Area(box) ==
    IF box.w.cls = "nan" \/ box.h.cls = "nan" THEN Flt("nan", 0)
    ELSE Flt("fin", box.w.t * box.h.t)

\* a < b on floats: false when either is NaN
Less(a, b) == a.cls = "fin" /\ b.cls = "fin" /\ a.t < b.t

Reverse(s) == ListOf([i \in 1..Len(s) |-> s[Len(s) + 1 - i]])

\* list.sort of a list shorter than 64, as CPython does it: the run at the
\* start of the list is found (strictly descending, then reversed, or else
\* non-descending) and the elements after it are inserted one by one at the
\* place a binary search with < finds
RunBreaks(s, descending) ==
    {i \in 3..Len(s) : Less(Area(s[i]), Area(s[i - 1])) # descending}

RunEnd(s, descending) ==
    IF RunBreaks(s, descending) = {} THEN Len(s)
    ELSE (CHOOSE i \in RunBreaks(s, descending) : \A j \in RunBreaks(s, descending) : i <= j) - 1

CountRun(s) ==
    IF Len(s) < 2 THEN [n |-> Len(s), descending |-> FALSE]
    ELSE [n |-> RunEnd(s, Less(Area(s[2]), Area(s[1]))),
          descending |-> Less(Area(s[2]), Area(s[1]))]

RunInOrder(s, run) ==
    IF run.descending THEN Reverse(SubSeq(s, 1, run.n)) \o SubSeq(s, run.n + 1, Len(s)) ELSE s

RECURSIVE BinaryPlace(_, _, _, _)
BinaryPlace(s, pivot, l, r) ==
    IF l >= r THEN l
    ELSE IF Less(Area(pivot), Area(s[l + ((r - l) \div 2)]))
         THEN BinaryPlace(s, pivot, l, l + ((r - l) \div 2))
         ELSE BinaryPlace(s, pivot, l + ((r - l) \div 2) + 1, r)

MoveTo(s, from, to) ==
    SubSeq(s, 1, to - 1) \o <<s[from]>> \o SubSeq(s, to, from - 1) \o SubSeq(s, from + 1, Len(s))

RECURSIVE BinarySort(_, _)
BinarySort(s, start) ==
    IF start > Len(s) THEN s
    ELSE BinarySort(MoveTo(s, start, BinaryPlace(s, s[start], 1, start)), start + 1)

\* list.sort of a longer list whose keys are all numbers: the stable sort,
\* each element placed after those with a smaller key and those with an
\* equal key that precede it (with a NaN key the outcome depends on the
\* merges, which are not modelled: no longer list of the inputs has one)
MergeMin == 64

StableRank(keys, i) ==
    Cardinality({j \in 1..Len(keys) : Less(keys[j], keys[i])})
    + Cardinality({j \in 1..i : ~Less(keys[j], keys[i]) /\ ~Less(keys[i], keys[j])})

Ranks(keys) == ListOf([i \in 1..Len(keys) |-> StableRank(keys, i)])

Ranked(s, ranks) == ListOf([r \in 1..Len(s) |-> s[CHOOSE i \in 1..Len(s) : ranks[i] = r]])

StableSort(s) == Ranked(s, Ranks(ListOf([i \in 1..Len(s) |-> Area(s[i])])))

SortAscending(s) ==
    IF Len(s) < MergeMin THEN BinarySort(RunInOrder(s, CountRun(s)), CountRun(s).n + 1)
    ELSE StableSort(s)

\* boxes.sort(key=w*h, reverse=True): the list is reversed, sorted in
\* ascending order and reversed again
SortByAreaDescending(s) == Reverse(SortAscending(Reverse(s)))

\* _sanitize_boxes(raw_boxes)
SanitizeBoxes(raws) == SortByAreaDescending(BoxLoop(raws))

\* raw boxes: two ordinary ones, an upper-case kind, a zero and a negative
\* width, values beyond [0,1] with an unknown kind, a NaN width, a NaN x,
\* something that is not an object, a width that is no number, a missing x,
\* numbers given as text
RawBoxes ==
    { RawBox(JNum(1), JNum(1), JNum(5), JNum(5), JStr(<<"n", "a", "v">>)),
      RawBox(JNum(0), JNum(0), JNum(10), JNum(10), JStr(<<"N", "A", "V">>)),
      RawBox(JNum(2), JNum(2), JNum(0), JNum(5), JAbsent),
      RawBox(JNum(2), JNum(2), JNum(-2), JNum(5), JAbsent),
      RawBox(JNum(-10), JInf, JNum(25), JNum(2), JStr(<<"z", "z">>)),
      RawBox(JNum(1), JNum(1), JNaN, JNum(5), JNull),
      RawBox(JNaN, JNum(1), JNum(2), JNum(2), JStr(<<>>)),
      NotABox,
      RawBox(JNum(1), JNum(1), JStr(<<"a", "b", "c">>), JNum(5), JAbsent),
      RawBox(JAbsent, JNum(1), JNum(5), JNum(5), JAbsent),
      RawBox(JNum(3), JNum(3), JStr(<<"0", ".", "3">>), JNum(3), JStr(<<"t", "e", "x", "t">>)) }

MaxBoxes == 3

\* a small box, and a list of n of them
Filler == RawBox(JNum(0), JNum(0), JNum(1), JNum(1), JAbsent)
Fill(n) == [i \in 1..n |-> Filler]

Largest == RawBox(JNum(0), JNum(0), JNum(10), JNum(10), JStr(<<"N", "A", "V">>))

\* lists around the limit: one box short of it followed by the largest box,
\* the same with a dropped box in between, the limit reached before the
\* largest box, one more small box than the limit
LongBoxLists ==
    { Fill(BoxLimit - 1) \o <<Largest>>,
      Fill(BoxLimit - 1) \o <<NotABox, Largest>>,
      Fill(BoxLimit) \o <<Largest>>,
      Fill(BoxLimit + 1) }

BoxLists == TuplesUpTo(RawBoxes, MaxBoxes) \cup LongBoxLists

BoxIdle ==
    /\ raw_boxes = <<>>
    /\ boxes = <<>>
    /\ box_step = 2

BoxInit ==
    /\ raw_boxes \in BoxLists
    /\ boxes = <<>>
    /\ box_step = 0

\* render_skeleton_html sanitizes the boxes of a skeleton
Sanitize ==
    /\ box_step = 0
    /\ boxes' = SanitizeBoxes(raw_boxes)
    /\ box_step' = 1
    /\ UNCHANGED raw_boxes

----------------------------------------------------------------------------
(* Snapshot metadata: write_metadata of src/opensource/app/cache_utils.py, *)
(* its two callers, and _read_snapshot_metadata of main.py.                *)

\* the decimal digits of a natural number
RECURSIVE NatText(_)
NatText(n) == IF n < 10 THEN <<DigitSeq[n + 1]>> ELSE NatText(n \div 10) \o <<DigitSeq[(n % 10) + 1]>>

\* json.dumps of a number of t tenths
NumText(t) ==
    (IF t < 0 THEN <<"-">> ELSE <<>>) \o NatText(Abs(t) \div 10)
        \o (IF Abs(t) % 10 = 0 THEN <<>> ELSE <<".", DigitSeq[(Abs(t) % 10) + 1]>>)

\* json.dumps of a string: quoted, with backslash and quote escaped
StrText(t) == <<"\"">> \o Replace(Replace(t, "\\", <<"\\", "\\">>), "\"", <<"\\", "\"">>) \o <<"\"">>

\* json.dumps of a value of the metadata
DumpValue(v) ==
    CASE v.k = "null" -> <<"n", "u", "l", "l">>
      [] v.k = "num" -> NumText(v.n)
      [] v.k = "nan" -> <<"N", "a", "N">>
      [] v.k = "str" -> StrText(v.s)

\* the text between the quotes of a JSON string, unescaped
RECURSIVE UnescapeText(_)
UnescapeText(t) ==
    IF t = <<>> THEN <<>>
    ELSE IF Head(t) = "\\" /\ Len(t) >= 2 THEN <<t[2]>> \o UnescapeText(Tail(Tail(t)))
    ELSE <<Head(t)>> \o UnescapeText(Tail(t))

NumberOf(f) == IF f.cls = "nan" THEN JNaN ELSE JNum(f.t)

\* json.loads of the text of a value
LoadValue(text) ==
    IF Head(text) = "\"" THEN JStr(UnescapeText(SubSeq(text, 2, Len(text) - 1)))
    ELSE IF text = <<"n", "u", "l", "l">> THEN JNull
    ELSE IF text = <<"[", "]">> THEN JList
    ELSE NumberOf(ParseFloat(text))

\* json.dumps(metadata) and json.loads of it, member by member (the order of
\* the members, which a mapping does not have, is left out)
Dumps(metadata) == [name \in DOMAIN metadata |-> DumpValue(metadata[name])]
Loads(members) == [name \in DOMAIN members |-> LoadValue(members[name])]

EmptyMapping == <<>>

\* meta.json: missing, holding the text of a JSON object, or cut short by a
\* write that failed after the file was opened
Missing == [kind |-> "missing", members |-> <<>>]
CutShort == [kind |-> "cut", members |-> <<>>]
JsonFile(members) == [kind |-> "json", members |-> members]
\* meta.json holding the text of a JSON value that is not an object
ValueFile(text) == [kind |-> "value", members |-> text]

\* _read_snapshot_metadata: {} when the file is missing or cannot be parsed
ReadSnapshotMetadata(file) ==
    IF file.kind = "json" THEN Loads(file.members)
    ELSE IF file.kind = "value" THEN LoadValue(file.members)
    ELSE EmptyMapping

\* dict.update: the members of the second mapping over those of the first
Updated(old, new) ==
    [name \in DOMAIN old \cup DOMAIN new |-> IF name \in DOMAIN new THEN new[name] ELSE old[name]]

\* variant: the new metadata is merged into what the file holds
WriteMetadataMerging(file, metadata) ==
    JsonFile(Dumps(Updated(ReadSnapshotMetadata(file), metadata)))

\* write_metadata: write_text replaces the whole content of meta.json
WriteMetadata(file, metadata) == JsonFile(Dumps(metadata))

\* values of the metadata: text (with a quote, a backslash, the word null,
\* digits), null, numbers, NaN
MetaValues ==
    { JStr(<<"/", "a">>), JStr(<<"n", "u", "l", "l">>), JStr(<<"\"">>), JStr(<<"\\">>),
      JStr(<<"1", ".", "5">>), JNull, JNum(15), JNum(-20), JNaN }

\* the metadata ingest_snapshot builds (route_norm, label, boxes stand for
\* its twelve members) and the one request_snapshot builds (route_norm, url,
\* sha256, duration_ms for its seventeen)
IngestMetas ==
    { [route_norm |-> JStr(<<"/", "a">>), label |-> l, boxes |-> JNum(10 * n)]
        : l \in MetaValues, n \in {1, 12} }

CaptureMetas ==
    { [route_norm |-> JStr(<<"/", "a">>), url |-> JStr(<<"h">>), sha256 |-> h, duration_ms |-> d]
        : h \in {JNull, JStr(<<"\\">>)}, d \in {JNull, JNum(15), JNaN} }

Writers == {"ingest_snapshot", "request_snapshot"}

MetasOf(w) == IF w = "ingest_snapshot" THEN IngestMetas ELSE CaptureMetas

NoMeta == [set |-> FALSE, metadata |-> EmptyMapping]

MaxWrites == 3

MetaIdle ==
    /\ meta_file = Missing
    /\ meta_pending = [w \in Writers |-> NoMeta]
    /\ meta_last = NoMeta
    /\ meta_writes = MaxWrites
    /\ meta_read = EmptyMapping

MetaInit ==
    /\ meta_file = Missing
    /\ meta_pending = [w \in Writers |-> NoMeta]
    /\ meta_last = NoMeta
    /\ meta_writes = 0
    /\ meta_read = EmptyMapping

\* a handler runs up to its await (request.json(), the worker's answer), the
\* request deciding the metadata it will write
MetaStart ==
    /\ meta_writes < MaxWrites
    /\ \E w \in Writers :
         /\ ~meta_pending[w].set
         /\ \E m \in MetasOf(w) :
              meta_pending' = [meta_pending EXCEPT ![w] = [set |-> TRUE, metadata |-> m]]
    /\ meta_writes' = meta_writes + 1
    /\ UNCHANGED <<meta_file, meta_last, meta_read>>

\* the handler resumes and runs to its end without another await: the write
\* is done, or it raises before the file is opened (mkdir), or after, leaving
\* the file cut short; the handler catches the exception
MetaWrite ==
    \E w \in Writers :
        /\ meta_pending[w].set
        /\ meta_pending' = [meta_pending EXCEPT ![w] = NoMeta]
        /\ \E outcome \in {"written", "raised_before_open", "raised_after_open"} :
             CASE outcome = "written" ->
                    /\ meta_file' = WriteMetadata(meta_file, meta_pending[w].metadata)
                    /\ meta_last' = meta_pending[w]
               [] outcome = "raised_before_open" ->
                    UNCHANGED <<meta_file, meta_last>>
               [] outcome = "raised_after_open" ->
                    /\ meta_file' = CutShort
                    /\ meta_last' = NoMeta
        /\ UNCHANGED <<meta_writes, meta_read>>

\* heatmap/media reads the metadata of the key
MetaRead ==
    /\ meta_read' = ReadSnapshotMetadata(meta_file)
    /\ UNCHANGED <<meta_file, meta_pending, meta_last, meta_writes>>

----------------------------------------------------------------------------
(* Reads of the metadata: _snapshot_media_info of main.py and              *)
(* load_metadata of cache_utils.py.                                        *)

\* json.loads gave a dict
IsMapping(file) == file.kind \in {"json", "missing", "cut"}

\* dict.setdefault
SetDefault(mapping, name, value) ==
    IF name \in DOMAIN mapping THEN mapping
    ELSE [n \in DOMAIN mapping \cup {name} |-> IF n = name THEN value ELSE mapping[n]]

MediaDefaults == [format |-> JStr(<<"w", "e", "b", "p">>), rel_path |-> JStr(<<"p">>)]

\* _snapshot_media_info, the "metadata" of its result: metadata.get raises
\* on a value that is not a dict
SnapshotMediaInfo(file) ==
    IF ~IsMapping(file) THEN Raised("AttributeError")
    ELSE Returned(SetDefault(SetDefault(ReadSnapshotMetadata(file), "format", MediaDefaults.format),
                             "rel_path", MediaDefaults.rel_path))

\* load_metadata: one step of the loop over rglob("meta.json"); acc is the
\* outcome so far; a snapshot_hash that is None or empty does not filter
ScanStep(acc, file, snapshot_hash) ==
    IF acc.raised # "none" \/ file.kind \in {"missing", "cut"} THEN acc
    ELSE IF ~Truthy(snapshot_hash) THEN Returned(Append(acc.val, ReadSnapshotMetadata(file)))
    ELSE IF ~IsMapping(file) THEN Raised("AttributeError")
    ELSE IF "snapshot_hash" \notin DOMAIN file.members
            \/ LoadValue(file.members["snapshot_hash"]) # snapshot_hash THEN acc
    ELSE Returned(Append(acc.val, ReadSnapshotMetadata(file)))

RECURSIVE ScanLoop(_, _, _)
ScanLoop(acc, files, snapshot_hash) ==
    IF files = <<>> THEN acc
    ELSE ScanLoop(ScanStep(acc, Head(files), snapshot_hash), Tail(files), snapshot_hash)

LoadMetadata(files, snapshot_hash) == ScanLoop(Returned(<<>>), files, snapshot_hash)

HashOne == <<"h", "1">>

\* what meta.json can hold: nothing, a text cut short, an object (with the
\* snapshot_hash asked for, another one, or none), a JSON value that is not
\* an object
ScanFiles ==
    { Missing, CutShort,
      JsonFile(Dumps([snapshot_hash |-> JStr(HashOne), sha256 |-> JStr(<<"e">>)])),
      JsonFile(Dumps([snapshot_hash |-> JStr(<<"h", "2">>), format |-> JStr(<<"h", "t", "m", "l">>)])),
      JsonFile(Dumps([label |-> JNull])),
      ValueFile(<<"n", "u", "l", "l">>), ValueFile(<<"[", "]">>), ValueFile(<<"5">>),
      ValueFile(StrText(HashOne)) }

MaxFiles == 2

ScanDisks == UNION { [1..n -> ScanFiles] : n \in 1..MaxFiles }

ScanFilters == {JNull, JStr(<<>>), JStr(HashOne)}

ScanIdle ==
    /\ scan_disk = <<>>
    /\ scan_filter = JNull
    /\ scan_op = "off"
    /\ scan_outcome = Returned(<<>>)

ScanInit ==
    /\ scan_disk \in ScanDisks
    /\ scan_filter \in ScanFilters
    /\ scan_op = "none"
    /\ scan_outcome = Returned(<<>>)

\* _read_snapshot_metadata for the key whose meta.json is the first file
ReadKey ==
    /\ scan_op = "none"
    /\ scan_op' = "read"
    /\ scan_outcome' = Returned(ReadSnapshotMetadata(scan_disk[1]))
    /\ UNCHANGED <<scan_disk, scan_filter>>

\* _snapshot_media_info for the same key
MediaLookup ==
    /\ scan_op = "none"
    /\ scan_op' = "media"
    /\ scan_outcome' = SnapshotMediaInfo(scan_disk[1])
    /\ UNCHANGED <<scan_disk, scan_filter>>

\* load_metadata(snapshot_hash) over the cache; rglob finds existing files
MetadataScan ==
    /\ scan_op = "none"
    /\ scan_op' = "scan"
    /\ scan_outcome' = LoadMetadata(scan_disk, scan_filter)
    /\ UNCHANGED <<scan_disk, scan_filter>>

----------------------------------------------------------------------------
(* Snapshot submission and lookup: ingest_snapshot of                      *)
(* src/opensource/app/ba.py, render_skeleton_html of cache_utils.py,       *)
(* _parse_grid_identifier and heatmap_media of main.py.                    *)

\* int(text): an optional sign and decimal digits
IntOfText(text) ==
    IF text # <<>> /\ Head(text) \in {"+", "-"} /\ Len(text) > 1 /\ Range(Tail(text)) \subseteq Digits
    THEN Returned((IF Head(text) = "-" THEN -1 ELSE 1) * DecValue(Tail(text)))
    ELSE IF text # <<>> /\ Range(text) \subseteq Digits THEN Returned(DecValue(text))
    ELSE Raised("ValueError")

AtLeastOne(n) == IF n < 1 THEN 1 ELSE n

HeatmapCols == 12
HeatmapRows == 8

GridToken(cols, rows) == NatText(cols) \o <<"x">> \o NatText(rows)

\* the two integers of a token "ColsxRows"
GridNumbers(parts) ==
    IF Len(parts) # 2 THEN <<Raised("ValueError"), Raised("ValueError")>>
    ELSE <<IntOfText(parts[1]), IntOfText(parts[2])>>

GridOf(numbers, default_cols, default_rows) ==
    IF numbers[1].raised = "none" /\ numbers[2].raised = "none"
    THEN GridToken(AtLeastOne(numbers[1].val), AtLeastOne(numbers[2].val))
    ELSE GridToken(default_cols, default_rows)

\* _parse_grid_identifier(grid_id, default_cols, default_rows), its third
\* result
ParseGridIdentifier(grid_id, default_cols, default_rows) ==
    IF ~Truthy(grid_id) THEN GridToken(default_cols, default_rows)
    ELSE GridOf(GridNumbers(Split(Replace(Replace(Lower(grid_id.s), " ", <<>>), "*", <<"x">>), "x")),
                default_cols, default_rows)

\* the skeleton of a body: absent, a value that is not an object, or an
\* object whose boxes are absent, a number or a list, and whose viewport is
\* absent, an object or a list
Skeleton(shape, boxes_kind, items, viewport) ==
    [shape |-> shape, boxes_kind |-> boxes_kind, items |-> items, viewport |-> viewport]

\* render_skeleton_html: iterating a number raises TypeError, no box left
\* raises ValueError, viewport.get on a list raises AttributeError; the
\* page is given by its boxes
RenderOutcome(skeleton, sanitized) ==
    IF skeleton.boxes_kind = "number" THEN Raised("TypeError")
    ELSE IF sanitized = <<>> THEN Raised("ValueError")
    ELSE IF skeleton.viewport = "list" THEN Raised("AttributeError")
    ELSE Returned(sanitized)

RenderSkeletonHtml(skeleton) ==
    RenderOutcome(skeleton,
                  IF skeleton.boxes_kind = "list" THEN SanitizeBoxes(skeleton.items) ELSE <<>>)

\* the identifiers ingest_snapshot derives from the body
SubmitRouteNorm(b) ==
    IF TextOr(b.route_norm, <<>>) # <<>> THEN NormalizeRoute(JStr(TextOr(b.route_norm, <<>>)))
    ELSE NormalizeRoute(OrValue(b.route, OrValue(b.path, b.url)))

SubmitKey(b) ==
    [route_norm |-> SubmitRouteNorm(b),
     snapshot_hash |-> TextOr(b.snapshot_hash, Default),
     vp_bucket |-> TextOr(OrValue(b.vp_bucket, b.vp), <<"a", "n", "y">>),
     grid_id |-> TextOr(OrValue(b.grid_id, b.grid), <<"g", "r", "i", "d">>),
     section |-> TextOr(b.section, <<"a", "l", "l">>)]

PathOf(k) == SnapshotCacheParts(k.route_norm, k.snapshot_hash, k.vp_bucket, k.grid_id, k.section)

\* the cache: one entry per directory, with the content of index.html and of
\* meta.json ("none" when the file does not exist)
Entry(path, html, meta) == [path |-> path, html |-> html, meta |-> meta]
NoFile == [exists |-> FALSE, content |-> <<>>]
File(content) == [exists |-> TRUE, content |-> content]

EntryAt(disk, path) ==
    IF \E e \in disk : e.path = path THEN CHOOSE e \in disk : e.path = path
    ELSE Entry(path, NoFile, NoFile)

Stored(disk, entry) == {e \in disk : e.path # entry.path} \cup {entry}

\* the metadata ingest_snapshot writes (the members that identify the
\* snapshot, and the number of raw boxes)
SubmitMetadata(b, k) ==
    [route_norm |-> k.route_norm, snapshot_hash |-> k.snapshot_hash, vp_bucket |-> k.vp_bucket,
     grid_id |-> k.grid_id, section |-> k.section,
     boxes |-> IF b.skeleton.boxes_kind = "list" THEN Len(b.skeleton.items) ELSE 0]

\* the try block of ingest_snapshot: index.html, then meta.json; written
\* tells how far it came before an exception
Persisted(disk, path, html, metadata, written) ==
    CASE written = "nothing" -> disk
      [] written = "html" -> Stored(disk, Entry(path, File(html), EntryAt(disk, path).meta))
      [] written = "both" -> Stored(disk, Entry(path, File(html), File(metadata)))

\* ingest_snapshot after request.json(): the cache it leaves
SubmitDisk(disk, b, rendered, written) ==
    IF b.shape # "dict" \/ b.skeleton.shape # "dict" \/ rendered.raised # "none" THEN disk
    ELSE Persisted(disk, PathOf(SubmitKey(b)), rendered.val, SubmitMetadata(b, SubmitKey(b)), written)

\* the key heatmap_media looks up
MediaKey(q) ==
    [route_norm |-> NormalizeRoute(OrValue(q.route, JStr(<<"/">>))),
     snapshot_hash |-> TextOr(q.snapshot, Default),
     vp_bucket |-> TextOr(q.vp, <<"a", "n", "y">>),
     grid_id |-> ParseGridIdentifier(q.grid, HeatmapCols, HeatmapRows),
     section |-> TextOr(q.section, <<"a", "l", "l">>)]

NotFound == 404

\* heatmap_media: 404 when index.html of the key does not exist
HeatmapMedia(disk, q) ==
    IF EntryAt(disk, PathOf(MediaKey(q))).html.exists THEN 200 ELSE NotFound

\* identifiers of a body and of a lookup: omitted, or text
IdRoutes == {JAbsent, JStr(<<"a", "/">>)}
IdSnapshots == {JAbsent, JStr(<<"h", "1">>)}
IdVps == {JAbsent, JStr(<<"m">>)}
IdGrids == {JAbsent, JStr(<<"1", "2", "x", "8">>), JStr(<<"a", "b", "c">>), JStr(<<"4", "X", "4">>)}
IdSections == {JAbsent, JStr(<<"h", "e", "r", "o">>)}

GoodBox == RawBox(JNum(1), JNum(1), JNum(5), JNum(5), JStr(<<"n", "a", "v">>))
ZeroBox == RawBox(JNum(2), JNum(2), JNum(0), JNum(5), JAbsent)
NanBox == RawBox(JNum(1), JNum(1), JNaN, JNum(5), JNull)
NoXBox == RawBox(JAbsent, JNum(1), JNum(5), JNum(5), JAbsent)

Skeletons ==
    { Skeleton("absent", "absent", <<>>, "absent"),
      Skeleton("value", "absent", <<>>, "absent"),
      Skeleton("dict", "absent", <<>>, "absent"),
      Skeleton("dict", "number", <<>>, "absent"),
      Skeleton("dict", "list", <<>>, "dict"),
      Skeleton("dict", "list", <<GoodBox>>, "absent"),
      Skeleton("dict", "list", <<GoodBox>>, "list"),
      Skeleton("dict", "list", <<ZeroBox, GoodBox>>, "dict"),
      Skeleton("dict", "list", <<ZeroBox>>, "absent"),
      Skeleton("dict", "list", <<NotABox, NoXBox>>, "absent"),
      Skeleton("dict", "list", <<NanBox>>, "absent"),
      Skeleton("dict", "list", <<ZeroBox, NanBox>>, "dict") }

SubmitBody(shape, route, snapshot_hash, vp_bucket, grid_id, section, skeleton) ==
    [shape |-> shape, route |-> route, path |-> JAbsent, url |-> JAbsent, route_norm |-> JAbsent,
     snapshot_hash |-> snapshot_hash, vp_bucket |-> vp_bucket, vp |-> JAbsent,
     grid_id |-> grid_id, grid |-> JAbsent, section |-> section, skeleton |-> skeleton]

NoSubmitBody(shape) ==
    SubmitBody(shape, JAbsent, JAbsent, JAbsent, JAbsent, JAbsent, Skeleton("absent", "absent", <<>>, "absent"))

\* bodies: not JSON, JSON that is not an object, objects with every choice
\* of identifiers and skeleton, and objects that name the route, the
\* viewport bucket and the grid by their other keys
SubmitBodies ==
    {NoSubmitBody("invalid"), NoSubmitBody("value")}
    \cup { SubmitBody("dict", r, h, v, g, c, k) : r \in IdRoutes, h \in IdSnapshots, v \in IdVps,
                                            g \in IdGrids, c \in IdSections, k \in Skeletons }
    \cup { [NoSubmitBody("dict") EXCEPT !.url = JStr(<<"b">>), !.vp = JStr(<<"m">>),
                                  !.grid = JStr(<<"4", "x", "4">>), !.route_norm = n,
                                  !.skeleton = Skeleton("dict", "list", <<GoodBox>>, "absent")]
             : n \in {JAbsent, JStr(<<" ", "c", " ">>)} }

MediaRequests ==
    [route : IdRoutes, snapshot : IdSnapshots, vp : IdVps, grid : IdGrids, section : IdSections]

NoMediaRequest ==
    [route |-> JAbsent, snapshot |-> JAbsent, vp |-> JAbsent, grid |-> JAbsent, section |-> JAbsent]

\* a cache that already holds a snapshot, stored for a body without
\* identifiers
OldBody == [NoSubmitBody("dict") EXCEPT !.skeleton = Skeleton("dict", "list", <<Largest>>, "absent")]

OldDisk == SubmitDisk({}, OldBody, RenderSkeletonHtml(OldBody.skeleton), "both")

SubmitIdle ==
    /\ sub_body = NoSubmitBody("invalid")
    /\ sub_before = {}
    /\ sub_disk = {}
    /\ sub_status = 0
    /\ sub_pc = "off"
    /\ media_req = NoMediaRequest
    /\ media_status = 0

SubmitInit ==
    /\ sub_body \in SubmitBodies
    /\ sub_before \in {{}, OldDisk}
    /\ sub_disk = sub_before
    /\ sub_status = 0
    /\ sub_pc = "idle"
    /\ media_req = NoMediaRequest
    /\ media_status = 0

\* POST /ba/snapshot
IngestSnapshot ==
    /\ sub_pc = "idle"
    /\ \E written \in {"nothing", "html", "both"} :
         sub_disk' = SubmitDisk(sub_disk, sub_body, RenderSkeletonHtml(sub_body.skeleton), written)
    /\ sub_status' = 204
    /\ sub_pc' = "submitted"
    /\ UNCHANGED <<sub_body, sub_before, media_req, media_status>>

\* GET /heatmap/media
MediaGet ==
    /\ sub_pc = "submitted"
    /\ \E q \in MediaRequests :
         /\ media_req' = q
         /\ media_status' = HeatmapMedia(sub_disk, q)
    /\ sub_pc' = "looked"
    /\ UNCHANGED <<sub_body, sub_before, sub_disk, sub_status>>

----------------------------------------------------------------------------
(* Click statements and the heatmap query: ingest of ba.py, heatmap and    *)
(* _fetch_heatmap_rows of main.py, _escape_flux of src/app/api.py.         *)

\* the statements ingest hands to _write_line for an event, rs being its
\* coercions
StatementsOf(event, event_type, rs) ==
    IF IsHeartbeat(event_type) \/ FirstRaised(rs) # "none" THEN <<>>
    ELSE <<GenericStatement(event, LocalsOf(event_type, rs))>>
            \o (IF ClickAggregate(event, event_type)
                THEN <<ClickStatement(event, LocalsOf(event_type, rs))>> ELSE <<>>)

\* what the store keeps of a statement: measurement and tags, unescaped
StoredStatement(stmt) ==
    [m |-> stmt.m, tags |-> [name \in DOMAIN stmt.tags |-> Unescape(stmt.tags[name])]]

\* _escape_flux
EscapeFlux(value) == Replace(Replace(value, "\\", <<"\\", "\\">>), "\"", <<"\\", "\"">>)

\* the values heatmap hands to _build_heatmap_grid, empty for None
FilterValues(q) ==
    [site |-> TextOr(q.site, <<>>),
     route_norm |-> NormalizeRoute(OrValue(q.route, JStr(<<"/">>))),
     snapshot |-> IF Lower(TextOr(q.snapshot, Default)) \in {<<"*">>, <<"a", "l", "l">>, <<"a", "n", "y">>}
                  THEN <<>> ELSE TextOr(q.snapshot, Default),
     grid |-> ParseGridIdentifier(q.grid, HeatmapCols, HeatmapRows),
     vp |-> IF Lower(TextOr(q.vp, <<>>)) \in {<<>>, <<"*">>, <<"a", "n", "y">>}
            THEN <<>> ELSE TextOr(q.vp, <<>>),
     section |-> IF Lower(TextOr(q.section, <<>>)) \in
                        {<<>>, <<"*">>, <<"a", "l", "l">>, <<"_", "_", "a", "l", "l", "_", "_">>}
                 THEN <<>> ELSE TextOr(q.section, <<>>)]

\* _fetch_heatmap_rows: one filter per value that is not empty, the value
\* as a Flux string literal
FiltersOf(values) ==
    [name \in {n \in DOMAIN values : values[n] # <<>>} |-> EscapeFlux(values[name])]

HeatFilters(q) == FiltersOf(FilterValues(q))

\* the store: the click statements whose tags equal the literals
Selects(filters, stored) ==
    /\ stored.m = "logflow_click"
    /\ \A name \in DOMAIN filters :
         /\ name \in DOMAIN stored.tags
         /\ stored.tags[name] = UnescapeText(filters[name])

Selected(filters, store) == SelectSeq(store, LAMBDA stored : Selects(filters, stored))

\* events: every choice of identifiers on a click with both bins in range,
\* an event that is no click, a click with a bin out of range, a click
\* whose depth is infinite
SelectEvents ==
    TagEvents \cup { NoEvent, [ClickEvent EXCEPT !.x_bin = JNum(-10)],
                     [ClickEvent EXCEPT !.depth = JInf] }

HeatQueries ==
    [site : {JAbsent, JStr(<<"s", "1">>)}, route : {JAbsent, JStr(<<"a", "/">>)},
     snapshot : {JAbsent, JStr(<<"h", "1">>), JStr(<<"A", "l", "l">>)},
     vp : {JAbsent, JStr(<<"m">>)},
     grid : {JAbsent, JStr(<<"1", "2", "x", "8">>), JStr(<<"a", " ", "b">>)},
     section : {JAbsent, JStr(<<"h", "e", "r", "o">>)}]

NoHeatQuery ==
    [site |-> JAbsent, route |-> JAbsent, snapshot |-> JAbsent, vp |-> JAbsent,
     grid |-> JAbsent, section |-> JAbsent]

SelectIdle ==
    /\ sel_event = NoEvent
    /\ sel_store = <<>>
    /\ sel_query = NoHeatQuery
    /\ sel_filters = <<>>
    /\ sel_rows = <<>>
    /\ sel_pc = "off"

SelectInit ==
    /\ sel_event \in SelectEvents
    /\ sel_store = <<>>
    /\ sel_query = NoHeatQuery
    /\ sel_filters = <<>>
    /\ sel_rows = <<>>
    /\ sel_pc = "idle"

\* POST /ba: the statements of the event reach the store, or the writes fail
ClickIngest ==
    /\ sel_pc = "idle"
    /\ \E delivered \in BOOLEAN :
         sel_store' = IF delivered
                      THEN MapSeq(StoredStatement,
                                  StatementsOf(sel_event, EventType(sel_event.type), Coercions(sel_event)))
                      ELSE <<>>
    /\ sel_pc' = "stored"
    /\ UNCHANGED <<sel_event, sel_query, sel_filters, sel_rows>>

\* GET /heatmap: the filters of the query and the statements they select
HeatmapQuery ==
    /\ sel_pc = "stored"
    /\ \E q \in HeatQueries :
         /\ sel_query' = q
         /\ sel_filters' = HeatFilters(q)
         /\ sel_rows' = Selected(HeatFilters(q), sel_store)
    /\ sel_pc' = "queried"
    /\ UNCHANGED <<sel_event, sel_store>>

----------------------------------------------------------------------------
(* Two composite keys and their cache paths: snapshot_cache_path of        *)
(* src/opensource/app/cache_utils.py, called by ingest_snapshot for the    *)
(* key it stores and by heatmap_media for the key it serves.               *)

\* normalised routes and identifiers as the handlers hand them over (no
\* component is empty): the root, a route named root, a nested route, text
\* with a slash, with the two underscores a slash becomes, with a character
\* that becomes an underscore
PathRoutes ==
    { <<"/">>, <<"/", "r", "o", "o", "t">>, <<"/", "a", "/", "b">>, <<"/", "a">> }

PathTexts ==
    { <<"a", "/", "b">>, <<"a", "_", "_", "b">>, <<"a", ":", "b">>, <<"a", "_", "b">>, Default }

PathKeys ==
    [route_norm : PathRoutes, snapshot_hash : PathTexts, vp_bucket : {<<"a", "n", "y">>},
     grid_id : {<<"1", "2", "x", "8">>, <<"g", "r", "i", "d">>}, section : PathTexts \ {Default}]

PathsIdle ==
    /\ key_a = NoKey
    /\ key_b = NoKey
    /\ parts_a = <<>>
    /\ parts_b = <<>>
    /\ paths_step = 3

PathsInit ==
    /\ key_a \in PathKeys
    /\ key_b \in PathKeys
    /\ parts_a = <<>>
    /\ parts_b = <<>>
    /\ paths_step = 0

\* ingest_snapshot derives the path it writes to
StorePath ==
    /\ paths_step = 0
    /\ parts_a' = PathOf(key_a)
    /\ paths_step' = 1
    /\ UNCHANGED <<key_a, key_b, parts_b>>

\* a later request derives the path of its own key
OtherPath ==
    /\ paths_step = 1
    /\ parts_b' = PathOf(key_b)
    /\ paths_step' = 2
    /\ UNCHANGED <<key_a, key_b, parts_a>>

----------------------------------------------------------------------------
(* The renderers: the tree walker of src/app/cache_utils.py                *)
(* (build_wireframe_html, _render_children, _render_node, _render_element, *)
(* _find_first) and _render_box of src/opensource/app/cache_utils.py.      *)
(* Markup is a sequence of pieces: a piece is either text the renderer     *)
(* writes itself or text it computed from its input.                       *)

Markup(name) == [kind |-> "markup", name |-> name, text |-> <<>>]
Embedded(text) == [kind |-> "embedded", name |-> "", text |-> text]

\* html.escape(s): & first, then <, >, " and '
HtmlEscape(s) ==
    Replace(Replace(Replace(Replace(Replace(s,
        "&", <<"&", "a", "m", "p", ";">>), "<", <<"&", "l", "t", ";">>), ">", <<"&", "g", "t", ";">>), "\"", <<"&", "q", "u", "o", "t", ";">>), "'", <<"&", "#", "x", "2", "7", ";">>)

\* str.upper()
UpperChar(c) ==
    IF \E i \in 1..Len(LowerSeq) : LowerSeq[i] = c
    THEN UpperSeq[CHOOSE i \in 1..Len(LowerSeq) : LowerSeq[i] = c]
    ELSE c

Upper(s) == ListOf([i \in 1..Len(s) |-> UpperChar(s[i])])

InlineTags ==
    { <<"a">>, <<"b">>, <<"c", "o", "d", "e">>, <<"e", "m">>, <<"i">>,
      <<"l", "a", "b", "e", "l">>, <<"s", "m", "a", "l", "l">>,
      <<"s", "p", "a", "n">>, <<"s", "t", "r", "o", "n", "g">>,
      <<"s", "u", "b">>, <<"s", "u", "p">> }

PlaceholderTags ==
    { <<"i", "m", "g">>, <<"i", "f", "r", "a", "m", "e">>,
      <<"s", "v", "g">>, <<"p", "i", "c", "t", "u", "r", "e">>,
      <<"v", "i", "d", "e", "o">>, <<"a", "u", "d", "i", "o">>,
      <<"c", "a", "n", "v", "a", "s">> }

SkippedTags ==
    { <<"s", "c", "r", "i", "p", "t">>, <<"s", "t", "y", "l", "e">>,
      <<"n", "o", "s", "c", "r", "i", "p", "t">>, <<"m", "e", "t", "a">>,
      <<"l", "i", "n", "k">> }

HeadingTags ==
    { <<"h", "1">>, <<"h", "2">>, <<"h", "3">>, <<"h", "4">>,
      <<"h", "5">>, <<"h", "6">> }

CellTags == {<<"t", "d">>, <<"t", "h">>}

LabelAttrs == <<"data-section", "aria-label", "title", "alt">>

MaxSerializedNodes == 4000
PlaceholderLabelLen == 28
LabelLen == 48
TextLenCap == 60
BoxLabelLen == 40

\* a node of the snapshot: type 0 document, 1 document type, 2 element,
\* 3 text, anything else (8, a comment); attributes are name and value pairs
Node(type, tagName, attributes, textContent, childNodes) ==
    [type |-> type, tagName |-> tagName, attributes |-> attributes,
     textContent |-> textContent, childNodes |-> childNodes]

Attr(name, value) == [name |-> name, value |-> value]

\* attr_name in attributes, attributes[attr_name]
HasAttr(attributes, name) == \E i \in 1..Len(attributes) : attributes[i].name = name
AttrValue(attributes, name) ==
    attributes[CHOOSE i \in 1..Len(attributes) : attributes[i].name = name].value

\* for attr_name in _LABEL_ATTRS: if attr_name in attributes: ...; break
LabelsOf(attributes) ==
    Take(SelectSeq(LabelAttrs, LAMBDA name : HasAttr(attributes, name)), 1)

\* what a walk of a list of nodes gives: the markup, whether the list was cut
\* short, state["count"] afterwards, and the number of nodes of the list
\* handed to _render_node
Walked(html, truncated, count, taken) ==
    [html |-> html, truncated |-> truncated, count |-> count, taken |-> taken]

Rendered(html, count) == [html |-> html, truncated |-> FALSE, count |-> count]

SnapshotTruncated == Markup("<div class=\"wf-placeholder\">Snapshot truncated for brevity</div>")
ContentTruncated == Markup("<div class=\"wf-placeholder\">Content truncated</div>")

\* state["count"] >= _MAX_SERIALIZED_NODES
BudgetExceeded(count) == count > MaxSerializedNodes
BudgetReached(count) == count >= MaxSerializedNodes

\* (node.get("tagName") or "div").lower()
TagOf(node) == Lower(IF node.tagName = <<>> THEN <<"d", "i", "v">> ELSE node.tagName)

\* the label of a placeholder: the tag in upper case, then a separator (its
\* middle dot written as ~) and the first 28 characters of the first label
\* attribute present
Separator == <<" ", "~", " ">>

PlaceholderLabel(tag, labels, attributes) ==
    IF labels = <<>> THEN Upper(tag)
    ELSE Upper(tag) \o Separator \o Take(AttrValue(attributes, labels[1]), PlaceholderLabelLen)

PlaceholderBox(label) ==
    <<Markup("<div class=\"wf-placeholder\">"), Embedded(HtmlEscape(label)), Markup("</div>")>>

ClassesOf(tag) ==
    IF tag \in InlineTags THEN Markup("class=\"wf-inline\"")
    ELSE IF tag \in HeadingTags THEN Markup("class=\"wf-block wf-heading\"")
    ELSE Markup("class=\"wf-block\"")

SpanAttr(name, attributes) ==
    IF HasAttr(attributes, name)
    THEN <<Markup(" " \o name \o "=\""), Embedded(HtmlEscape(AttrValue(attributes, name))), Markup("\"")>>
    ELSE <<>>

\* the attrs list of an element, joined by spaces
AttrsOf(tag, attributes) ==
    <<ClassesOf(tag), Markup(" data-tag=\""), Embedded(HtmlEscape(tag)), Markup("\"")>>
    \o (IF tag \in CellTags
        THEN SpanAttr("colspan", attributes) \o SpanAttr("rowspan", attributes)
        ELSE <<>>)

LabelHtml(labels, attributes) ==
    IF labels = <<>> THEN <<>>
    ELSE <<Markup("<span class=\"wf-label\">"),
           Embedded(HtmlEscape(Take(AttrValue(attributes, labels[1]), LabelLen))),
           Markup("</span>")>>

TagHtml(tag) ==
    IF tag \in InlineTags THEN <<>>
    ELSE <<Markup("<span class=\"wf-tag\">"), Embedded(HtmlEscape(tag)), Markup("</span>")>>

\* the markup of an element that is neither skipped nor a placeholder, its
\* children walked
ElementHtml(tag, attributes, children) ==
    <<Markup("<"), Embedded(tag), Markup(" ")>> \o AttrsOf(tag, attributes) \o <<Markup(">")>>
    \o LabelHtml(LabelsOf(attributes), attributes) \o children.html \o TagHtml(tag)
    \o <<Markup("</"), Embedded(tag), Markup(">")>>
    \o (IF children.truncated THEN <<ContentTruncated>> ELSE <<>>)

TextSpan(text) ==
    <<Markup("<span class=\"wf-text\" data-len=\""),
      Embedded(NatText(IF Len(text) < TextLenCap THEN Len(text) ELSE TextLenCap)),
      Markup("\"></span>")>>

RECURSIVE RenderChildren(_, _)
RECURSIVE RenderLoop(_, _, _, _)
RECURSIVE AfterNode(_, _, _, _)
RECURSIVE RenderNode(_, _)
RECURSIVE RenderElement(_, _)
RECURSIVE ElementOf(_, _, _)

\* _render_children(nodes, state)
RenderChildren(nodes, count) == RenderLoop(nodes, 1, count, <<>>)

RenderLoop(nodes, i, count, parts) ==
    IF i > Len(nodes) THEN Walked(parts, FALSE, count, i - 1)
    ELSE IF BudgetReached(count) THEN Walked(Append(parts, SnapshotTruncated), TRUE, count, i - 1)
    ELSE AfterNode(nodes, i, parts, RenderNode(nodes[i], count))

AfterNode(nodes, i, parts, snippet) ==
    RenderLoop(nodes, i + 1, snippet.count, parts \o snippet.html)

\* _render_node(node, state)
RenderNode(node, count) ==
    CASE node.type = 0 -> RenderChildren(node.childNodes, count)
      [] node.type = 2 -> RenderElement(node, count)
      [] node.type = 3 /\ Strip(node.textContent, Whitespace) # <<>> ->
            Rendered(TextSpan(Strip(node.textContent, Whitespace)), count + 1)
      [] OTHER -> Rendered(<<>>, count)

\* _render_element(node, state)
RenderElement(node, count) == ElementOf(node, TagOf(node), count + 1)

ElementOf(node, tag, count) ==
    IF tag \in SkippedTags THEN Rendered(<<>>, count)
    ELSE IF tag \in PlaceholderTags
    THEN Rendered(PlaceholderBox(PlaceholderLabel(tag, LabelsOf(node.attributes), node.attributes)), count)
    ELSE Rendered(ElementHtml(tag, node.attributes, RenderChildren(node.childNodes, count)),
                  RenderChildren(node.childNodes, count).count)

\* _is_element(node, "body")
IsBody(node) == node.type = 2 /\ Lower(node.tagName) = <<"b", "o", "d", "y">>

\* _find_first(node, predicate): the first node in document order, as a list
\* of at most one node
RECURSIVE FindFirst(_)
RECURSIVE FindAmong(_, _)
FindFirst(node) == IF IsBody(node) THEN <<node>> ELSE FindAmong(node.childNodes, 1)

FindAmong(nodes, i) ==
    IF i > Len(nodes) THEN <<>>
    ELSE IF FindFirst(nodes[i]) # <<>> THEN FindFirst(nodes[i])
    ELSE FindAmong(nodes, i + 1)

InfoBanner(label) ==
    IF label = <<>> THEN <<>>
    ELSE <<Markup("<div class=\"wf-inline\" style=\"align-self:flex-start;letter-spacing:0.08em;font-size:0.7rem;\">"),
           Embedded(HtmlEscape(Take(label, LabelLen))), Markup("</div>")>>

WireframePage(label, rendered_body) ==
    <<Markup("<!DOCTYPE html><html><head><meta charset=\"utf-8\"><style>"),
      Markup("_WIREFRAME_STYLE"), Markup("</style></head><body>")>>
    \o InfoBanner(label) \o rendered_body \o <<Markup("</body></html>")>>

\* what a renderer gives back: an exception, or markup with the walk's count
RenderRaised(exc) == [raised |-> exc, html |-> <<>>, truncated |-> FALSE, count |-> 0, taken |-> 0]
RenderReturned(html, walk) ==
    [raised |-> "none", html |-> html, truncated |-> walk.truncated, count |-> walk.count,
     taken |-> walk.taken]

BodyPage(label, bodies) ==
    IF bodies = <<>> THEN RenderRaised("ValueError")
    ELSE RenderReturned(WireframePage(label, RenderChildren(bodies[1].childNodes, 0).html),
                        RenderChildren(bodies[1].childNodes, 0))

\* build_wireframe_html(snapshot): roots is the node of the snapshot as a
\* list, empty when the snapshot has no node object
BuildWireframeHtml(roots, label) ==
    IF roots = <<>> THEN RenderRaised("ValueError") ELSE BodyPage(label, FindFirst(roots[1]))

\* "{:.4f}" of a clamped float
Fixed4(f) ==
    IF f.cls = "nan" THEN <<"n", "a", "n">>
    ELSE NatText(f.t \div 10) \o <<".">> \o NatText(f.t % 10) \o <<"0", "0", "0">>

\* str(raw.get("label") or "").strip()[:40] of _sanitize_boxes
BoxLabelOf(label) == Take(Strip(label, Whitespace), BoxLabelLen)

BoxLabelHtml(label) ==
    IF label = <<>> THEN <<>>
    ELSE <<Markup("<span class=\"sk-label\">"), Embedded(HtmlEscape(label)), Markup("</span>")>>

\* _render_box(box), the label of the box given beside it
RenderBox(box, label) ==
    <<Markup("<div class=\"sk-box "), Embedded(HtmlEscape(box.kind)), Markup("\" data-kind=\""),
      Embedded(HtmlEscape(box.kind)), Markup("\" style=\"--x:"), Embedded(Fixed4(box.x)),
      Markup(";--y:"), Embedded(Fixed4(box.y)), Markup(";--w:"), Embedded(Fixed4(box.w)),
      Markup(";--h:"), Embedded(Fixed4(box.h)), Markup(";\">")>>
    \o BoxLabelHtml(label) \o <<Markup("</div>")>>

\* render_skeleton_html on a skeleton of one raw box: the box sanitized, then
\* rendered
FlatOf(sanitized, label) ==
    IF sanitized = <<>> THEN RenderRaised("ValueError")
    ELSE RenderReturned(RenderBox(sanitized[1], BoxLabelOf(label)), Walked(<<>>, FALSE, 0, 0))

\* texts a caller may send: plain, with markup characters, with an entity
Quoted == <<"2", "\"", " ", "x">>
Angled == <<"b", ">", "<", "i">>
Amped == <<"T", "&", "C">>
Long == [i \in 1..LabelLen + 1 |-> IF i = LabelLen THEN "<" ELSE "a"]

NoAttrs == <<>>
TextNode(text) == Node(3, <<>>, NoAttrs, text, <<>>)
Element(tag, attributes, childNodes) == Node(2, tag, attributes, <<>>, childNodes)
Document(childNodes) == Node(0, <<>>, NoAttrs, <<>>, childNodes)

\* leaves: a text, a blank text, a document type, a comment, a placeholder
\* with a label, a skipped element, an element without a tag name, an inline
\* element in upper case, an element whose tag name has markup characters, a
\* cell with spans, a heading with a title
Leaves ==
    { TextNode(<<"h", "i", "<">>), TextNode(<<" ">>),
      Node(1, <<>>, NoAttrs, <<>>, <<>>), Node(8, <<>>, NoAttrs, Angled, <<>>),
      Element(<<"i", "m", "g">>, <<Attr("alt", Angled)>>, <<>>),
      Element(<<"s", "c", "r", "i", "p", "t">>, NoAttrs, <<>>),
      Element(<<>>, NoAttrs, <<>>),
      Element(<<"S", "P", "A", "N">>, <<Attr("title", Long)>>, <<>>),
      Element(Angled, NoAttrs, <<>>),
      Element(<<"t", "d">>, <<Attr("colspan", Quoted), Attr("rowspan", Amped)>>, <<>>),
      Element(<<"h", "1">>, <<Attr("aria-label", Amped), Attr("title", Quoted)>>, <<>>) }

\* nodes with children: a block with two texts, a block with an element and
\* a blank text, a document inside the tree, a placeholder and a skipped
\* element with children
Parents ==
    { Element(<<"d", "i", "v">>, NoAttrs, <<TextNode(<<"x", "a">>), TextNode(<<"x", "b">>)>>),
      Element(<<"p">>, NoAttrs, <<Element(<<"b">>, NoAttrs, <<TextNode(<<"x", "c">>)>>), TextNode(<<" ">>)>>),
      Document(<<TextNode(<<"x", "d">>), Element(<<"d", "i", "v">>, NoAttrs, <<>>)>>),
      Element(<<"s", "v", "g">>, NoAttrs, <<TextNode(<<"x", "e">>)>>),
      Element(<<"s", "t", "y", "l", "e">>, NoAttrs, <<TextNode(<<"x", "f">>)>>) }

MaxSiblings == 2

NodeLists == TuplesUpTo(Leaves \cup Parents, MaxSiblings)

\* counts a walk may have reached when it comes to a list of siblings
Counts == {0, MaxSerializedNodes - 2, MaxSerializedNodes - 1, MaxSerializedNodes}

RenderLabels == {<<>>, <<"o", "k">>, Angled, Long}

NoRawBox == NotABox

RenderInput(op, nodes, count, label, box) ==
    [op |-> op, nodes |-> nodes, count |-> count, label |-> label, box |-> box]

WalkInputs == {RenderInput("walk", nodes, count, <<>>, NoRawBox) : nodes \in NodeLists, count \in Counts}

\* snapshots: a page with a body, a body under the document itself, no body,
\* no node
BodyLists == TuplesUpTo(Leaves \cup Parents, 1)

Roots ==
    {<<Document(<<Element(<<"h", "t", "m", "l">>, NoAttrs, <<Element(<<"B", "O", "D", "Y">>, NoAttrs, nodes)>>)>>)>> : nodes \in BodyLists}
    \cup {<<Element(<<"b", "o", "d", "y">>, NoAttrs, nodes)>> : nodes \in BodyLists}
    \cup {<<Document(<<Element(<<"h", "t", "m", "l">>, NoAttrs, <<>>)>>)>>, <<>>}

BuildInputs == {RenderInput("build", roots, 0, label, NoRawBox) : roots \in Roots, label \in RenderLabels}

FlatKinds == {JAbsent, JStr(<<"n", "a", "v">>), JStr(Angled), JStr(Quoted)}

FlatBoxes ==
    {RawBox(JNum(1), JNum(2), JNum(5), JNum(10), kind) : kind \in FlatKinds}
    \cup {RawBox(JNum(1), JNum(1), JNaN, JNum(5), JNull), RawBox(JNum(1), JNum(1), JNum(0), JNum(5), JNull)}

FlatInputs == {RenderInput("flat", <<>>, 0, label, box) : label \in RenderLabels \cup {Amped}, box \in FlatBoxes}

NoRenderInput == RenderInput("none", <<>>, 0, <<>>, NoRawBox)

RenderIdle ==
    /\ render_in = NoRenderInput
    /\ render_out = RenderRaised("none")
    /\ render_pc = "off"

RenderInit ==
    /\ render_in \in WalkInputs \cup BuildInputs \cup FlatInputs
    /\ render_out = RenderRaised("none")
    /\ render_pc = "idle"

\* the walk comes to a list of siblings with render_in.count nodes counted
WalkSiblings ==
    /\ render_pc = "idle"
    /\ render_in.op = "walk"
    /\ render_out' = RenderReturned(RenderChildren(render_in.nodes, render_in.count).html,
                                    RenderChildren(render_in.nodes, render_in.count))
    /\ render_pc' = "walked"
    /\ UNCHANGED render_in

\* a snapshot is rendered by the tree walker
BuildWireframe ==
    /\ render_pc = "idle"
    /\ render_in.op = "build"
    /\ render_out' = BuildWireframeHtml(render_in.nodes, render_in.label)
    /\ render_pc' = "built"
    /\ UNCHANGED render_in

\* a skeleton of one box is rendered by the flat renderer
RenderFlat ==
    /\ render_pc = "idle"
    /\ render_in.op = "flat"
    /\ render_out' = FlatOf(SanitizeBoxes(<<render_in.box>>), render_in.label)
    /\ render_pc' = "flat"
    /\ UNCHANGED render_in

----------------------------------------------------------------------------
(* The query response parser: _parse_flux_csv of src/app/api.py.           *)

\* io.StringIO(text) read line by line: the text split at its newlines, a
\* last line without characters left out
LinesOf(text) ==
    IF text = <<>> THEN <<>>
    ELSE IF text[Len(text)] = "\n" THEN Split(SubSeq(text, 1, Len(text) - 1), "\n")
    ELSE Split(text, "\n")

\* csv.reader on a line without quotes: no columns for an empty line, else
\* the texts between the commas
ColumnsOf(line) == IF line = <<>> THEN <<>> ELSE Split(line, ",")

CsvReader(text) == ListOf([i \in 1..Len(LinesOf(text)) |-> ColumnsOf(LinesOf(text)[i])])

ResultName == <<"r", "e", "s", "u", "l", "t">>
TableName == <<"t", "a", "b", "l", "e">>

\* first == "result" and len(row) > 1 and row[1] == "table"
IsHeaderRowLoose(row) == row[1] = ResultName
IsHeaderRow(row) == row[1] = ResultName /\ Len(row) > 1 /\ row[2] = TableName

\* dict(zip(header, row)) for lists of one length: the names in the order of
\* their first place in the header, each with the value at its last place
LastPlace(header, name) ==
    CHOOSE i \in 1..Len(header) :
        header[i] = name /\ \A j \in (i + 1)..Len(header) : header[j] # name

FirstPlaces(header) ==
    SelectSeq(ListOf([i \in 1..Len(header) |-> i]),
              LAMBDA i : \A j \in 1..(i - 1) : header[j] # header[i])

Pair(name, value) == [name |-> name, value |-> value]

PairsOf(header, row, places) ==
    ListOf([p \in 1..Len(places) |->
                Pair(header[places[p]], row[LastPlace(header, header[places[p]])])])

DictZip(header, row) == PairsOf(header, row, FirstPlaces(header))

\* the loop of _parse_flux_csv over the rows of the reader
RECURSIVE ParseRows(_, _, _, _)
ParseRows(reader, i, header, rows) ==
    IF i > Len(reader) THEN rows
    ELSE IF reader[i] = <<>> THEN ParseRows(reader, i + 1, header, rows)
    ELSE IF StartsWith(reader[i][1], "#") THEN ParseRows(reader, i + 1, header, rows)
    ELSE IF IsHeaderRow(reader[i]) THEN ParseRows(reader, i + 1, reader[i], rows)
    ELSE IF header = <<>> THEN ParseRows(reader, i + 1, reader[i], rows)
    ELSE IF Len(reader[i]) # Len(header) THEN ParseRows(reader, i + 1, header, rows)
    ELSE ParseRows(reader, i + 1, header, Append(rows, DictZip(header, reader[i])))

\* _parse_flux_csv(text)
ParseFluxCsv(text) == ParseRows(CsvReader(text), 1, <<>>, <<>>)

\* lines of a response: empty, an annotation, headers of three, two and two
\* equal columns, a lone "result", "result" before another name, rows of
\* one, two and three columns, a header as the store writes it, its first
\* column empty
CsvLines ==
    { <<>>, <<"#", "d", ",", "s">>, <<"r", "e", "s", "u", "l", "t", ",", "t", "a", "b", "l", "e", ",", "v">>, <<"r", "e", "s", "u", "l", "t", ",", "t", "a", "b", "l", "e">>, <<"v", ",", "v">>, <<"r", "e", "s", "u", "l", "t">>, <<"r", "e", "s", "u", "l", "t", ",", "x">>,
      <<"7">>, <<"a", ",", "b">>, <<"r", ",", "0", ",", "5">>, <<",", "r", "e", "s", "u", "l", "t", ",", "t", "a", "b", "l", "e">> }

MaxLines == 3

JoinLines(lines) == Flatten(ListOf([i \in 1..Len(lines) |-> lines[i] \o <<"\n">>]))

CsvTexts == {JoinLines(lines) : lines \in TuplesUpTo(CsvLines, MaxLines)}

CsvIdle ==
    /\ csv_text = <<>>
    /\ csv_rows = <<>>
    /\ csv_pc = "off"

CsvInit ==
    /\ csv_text \in CsvTexts
    /\ csv_rows = <<>>
    /\ csv_pc = "idle"

\* _query_flux parses the text of the store's response
ParseResponse ==
    /\ csv_pc = "idle"
    /\ csv_rows' = ParseFluxCsv(csv_text)
    /\ csv_pc' = "parsed"
    /\ UNCHANGED csv_text

----------------------------------------------------------------------------
(* Specifications: one per component, the other components at rest.      *)

Init == IngestInit /\ RouteIdle /\ TagIdle /\ CoerceIdle /\ CacheIdle /\ QueryIdle /\ BoxIdle
        /\ MetaIdle /\ ScanIdle /\ SubmitIdle /\ SelectIdle /\ PathsIdle /\ RenderIdle /\ CsvIdle

Next ==
    \/ Receive /\ UNCHANGED <<routeVars, tagVars, coerceVars, cacheVars, queryVars, boxVars,
        metaVars, scanVars, submitVars, selectVars, pathVars, renderVars, csvVars>>
    \/ WriteShared /\ UNCHANGED <<routeVars, tagVars, coerceVars, cacheVars, queryVars,
        boxVars, metaVars, scanVars, submitVars, selectVars, pathVars, renderVars, csvVars>>
    \/ WriteTemp /\ UNCHANGED <<routeVars, tagVars, coerceVars, cacheVars, queryVars, boxVars,
        metaVars, scanVars, submitVars, selectVars, pathVars, renderVars, csvVars>>

Spec == Init /\ [][Next]_vars

InitRoute == RouteInit /\ TagIdle /\ CoerceIdle /\ CacheIdle /\ IngestIdle /\ QueryIdle /\
        BoxIdle /\ MetaIdle /\ ScanIdle /\ SubmitIdle /\ SelectIdle /\ PathsIdle /\ RenderIdle /\ CsvIdle

NextRoute ==
    \/ RouteNormalize /\ UNCHANGED <<tagVars, coerceVars, cacheVars, ingestVars, queryVars,
        boxVars, metaVars, scanVars, submitVars, selectVars, pathVars, renderVars, csvVars>>
    \/ RouteRenormalize /\ UNCHANGED <<tagVars, coerceVars, cacheVars, ingestVars, queryVars,
        boxVars, metaVars, scanVars, submitVars, selectVars, pathVars, renderVars, csvVars>>

SpecRoute == InitRoute /\ [][NextRoute]_vars

InitTag == TagInit /\ RouteIdle /\ CoerceIdle /\ CacheIdle /\ IngestIdle /\ QueryIdle /\
        BoxIdle /\ MetaIdle /\ ScanIdle /\ SubmitIdle /\ SelectIdle /\ PathsIdle /\ RenderIdle /\ CsvIdle

NextTag == TagEscape /\ UNCHANGED <<routeVars, coerceVars, cacheVars, ingestVars, queryVars,
        boxVars, metaVars, scanVars, submitVars, selectVars, pathVars, renderVars, csvVars>>

SpecTag == InitTag /\ [][NextTag]_vars

InitCoerce == CoerceInit /\ RouteIdle /\ TagIdle /\ CacheIdle /\ IngestIdle /\ QueryIdle /\
        BoxIdle /\ MetaIdle /\ ScanIdle /\ SubmitIdle /\ SelectIdle /\ PathsIdle /\ RenderIdle /\ CsvIdle

NextCoerce == CoerceCall /\ UNCHANGED <<routeVars, tagVars, cacheVars, ingestVars, queryVars,
        boxVars, metaVars, scanVars, submitVars, selectVars, pathVars, renderVars, csvVars>>

SpecCoerce == InitCoerce /\ [][NextCoerce]_vars

InitCache == CacheInit /\ RouteIdle /\ TagIdle /\ CoerceIdle /\ IngestIdle /\ QueryIdle /\
        BoxIdle /\ MetaIdle /\ ScanIdle /\ SubmitIdle /\ SelectIdle /\ PathsIdle /\ RenderIdle /\ CsvIdle

NextCache == CachePath /\ UNCHANGED <<routeVars, tagVars, coerceVars, ingestVars, queryVars,
        boxVars, metaVars, scanVars, submitVars, selectVars, pathVars, renderVars, csvVars>>

SpecCache == InitCache /\ [][NextCache]_vars

InitQuery == QueryInit /\ RouteIdle /\ TagIdle /\ CoerceIdle /\ CacheIdle /\ IngestIdle /\
        BoxIdle /\ MetaIdle /\ ScanIdle /\ SubmitIdle /\ SelectIdle /\ PathsIdle /\ RenderIdle /\ CsvIdle

NextQuery ==
    \/ QueryRequest /\ UNCHANGED <<routeVars, tagVars, coerceVars, cacheVars, ingestVars,
        boxVars, metaVars, scanVars, submitVars, selectVars, pathVars, renderVars, csvVars>>
    \/ StoreReply /\ UNCHANGED <<routeVars, tagVars, coerceVars, cacheVars, ingestVars,
        boxVars, metaVars, scanVars, submitVars, selectVars, pathVars, renderVars, csvVars>>
    \/ WorkerReply /\ UNCHANGED <<routeVars, tagVars, coerceVars, cacheVars, ingestVars,
        boxVars, metaVars, scanVars, submitVars, selectVars, pathVars, renderVars, csvVars>>

SpecQuery == InitQuery /\ [][NextQuery]_vars

InitBoxes == BoxInit /\ RouteIdle /\ TagIdle /\ CoerceIdle /\ CacheIdle /\ IngestIdle /\
        QueryIdle /\ MetaIdle /\ ScanIdle /\ SubmitIdle /\ SelectIdle /\ PathsIdle /\ RenderIdle /\ CsvIdle

NextBoxes == Sanitize /\ UNCHANGED <<routeVars, tagVars, coerceVars, cacheVars, ingestVars,
        queryVars, metaVars, scanVars, submitVars, selectVars, pathVars, renderVars, csvVars>>

SpecBoxes == InitBoxes /\ [][NextBoxes]_vars

InitMeta == MetaInit /\ RouteIdle /\ TagIdle /\ CoerceIdle /\ CacheIdle /\ IngestIdle /\
        QueryIdle /\ BoxIdle /\ ScanIdle /\ SubmitIdle /\ SelectIdle /\ PathsIdle /\ RenderIdle /\ CsvIdle

NextMeta ==
    \/ MetaStart /\ UNCHANGED <<routeVars, tagVars, coerceVars, cacheVars, ingestVars,
        queryVars, boxVars, scanVars, submitVars, selectVars, pathVars, renderVars, csvVars>>
    \/ MetaWrite /\ UNCHANGED <<routeVars, tagVars, coerceVars, cacheVars, ingestVars,
        queryVars, boxVars, scanVars, submitVars, selectVars, pathVars, renderVars, csvVars>>
    \/ MetaRead /\ UNCHANGED <<routeVars, tagVars, coerceVars, cacheVars, ingestVars,
        queryVars, boxVars, scanVars, submitVars, selectVars, pathVars, renderVars, csvVars>>

SpecMeta == InitMeta /\ [][NextMeta]_vars

InitScan == ScanInit /\ RouteIdle /\ TagIdle /\ CoerceIdle /\ CacheIdle /\ IngestIdle /\
        QueryIdle /\ BoxIdle /\ MetaIdle /\ SubmitIdle /\ SelectIdle /\ PathsIdle /\ RenderIdle /\ CsvIdle

NextScan ==
    \/ ReadKey /\ UNCHANGED <<routeVars, tagVars, coerceVars, cacheVars, ingestVars, queryVars,
        boxVars, metaVars, submitVars, selectVars, pathVars, renderVars, csvVars>>
    \/ MediaLookup /\ UNCHANGED <<routeVars, tagVars, coerceVars, cacheVars, ingestVars,
        queryVars, boxVars, metaVars, submitVars, selectVars, pathVars, renderVars, csvVars>>
    \/ MetadataScan /\ UNCHANGED <<routeVars, tagVars, coerceVars, cacheVars, ingestVars,
        queryVars, boxVars, metaVars, submitVars, selectVars, pathVars, renderVars, csvVars>>

SpecScan == InitScan /\ [][NextScan]_vars

InitSubmit == SubmitInit /\ RouteIdle /\ TagIdle /\ CoerceIdle /\ CacheIdle /\ IngestIdle /\
        QueryIdle /\ BoxIdle /\ MetaIdle /\ ScanIdle /\ SelectIdle /\ PathsIdle /\ RenderIdle /\ CsvIdle

NextSubmit ==
    \/ IngestSnapshot /\ UNCHANGED <<routeVars, tagVars, coerceVars, cacheVars, ingestVars,
        queryVars, boxVars, metaVars, scanVars, selectVars, pathVars, renderVars, csvVars>>
    \/ MediaGet /\ UNCHANGED <<routeVars, tagVars, coerceVars, cacheVars, ingestVars,
        queryVars, boxVars, metaVars, scanVars, selectVars, pathVars, renderVars, csvVars>>

SpecSubmit == InitSubmit /\ [][NextSubmit]_vars

InitSelect == SelectInit /\ RouteIdle /\ TagIdle /\ CoerceIdle /\ CacheIdle /\ IngestIdle /\
        QueryIdle /\ BoxIdle /\ MetaIdle /\ ScanIdle /\ SubmitIdle /\ PathsIdle /\ RenderIdle /\ CsvIdle

NextSelect ==
    \/ ClickIngest /\ UNCHANGED <<routeVars, tagVars, coerceVars, cacheVars, ingestVars,
        queryVars, boxVars, metaVars, scanVars, submitVars, pathVars, renderVars, csvVars>>
    \/ HeatmapQuery /\ UNCHANGED <<routeVars, tagVars, coerceVars, cacheVars, ingestVars,
        queryVars, boxVars, metaVars, scanVars, submitVars, pathVars, renderVars, csvVars>>

SpecSelect == InitSelect /\ [][NextSelect]_vars

InitPaths == PathsInit /\ RouteIdle /\ TagIdle /\ CoerceIdle /\ CacheIdle /\ IngestIdle /\
        QueryIdle /\ BoxIdle /\ MetaIdle /\ ScanIdle /\ SubmitIdle /\ SelectIdle /\ RenderIdle /\ CsvIdle

NextPaths ==
    \/ StorePath /\ UNCHANGED <<routeVars, tagVars, coerceVars, cacheVars, ingestVars,
        queryVars, boxVars, metaVars, scanVars, submitVars, selectVars, renderVars, csvVars>>
    \/ OtherPath /\ UNCHANGED <<routeVars, tagVars, coerceVars, cacheVars, ingestVars,
        queryVars, boxVars, metaVars, scanVars, submitVars, selectVars, renderVars, csvVars>>

SpecPaths == InitPaths /\ [][NextPaths]_vars

InitRender == RenderInit /\ RouteIdle /\ TagIdle /\ CoerceIdle /\ CacheIdle /\ IngestIdle /\
        QueryIdle /\ BoxIdle /\ MetaIdle /\ ScanIdle /\ SubmitIdle /\ SelectIdle /\ PathsIdle /\ CsvIdle

NextRender ==
    \/ WalkSiblings /\ UNCHANGED <<routeVars, tagVars, coerceVars, cacheVars, ingestVars,
        queryVars, boxVars, metaVars, scanVars, submitVars, selectVars, pathVars, csvVars>>
    \/ BuildWireframe /\ UNCHANGED <<routeVars, tagVars, coerceVars, cacheVars, ingestVars,
        queryVars, boxVars, metaVars, scanVars, submitVars, selectVars, pathVars, csvVars>>
    \/ RenderFlat /\ UNCHANGED <<routeVars, tagVars, coerceVars, cacheVars, ingestVars,
        queryVars, boxVars, metaVars, scanVars, submitVars, selectVars, pathVars, csvVars>>

SpecRender == InitRender /\ [][NextRender]_vars

InitCsv == CsvInit /\ RouteIdle /\ TagIdle /\ CoerceIdle /\ CacheIdle /\ IngestIdle /\
        QueryIdle /\ BoxIdle /\ MetaIdle /\ ScanIdle /\ SubmitIdle /\ SelectIdle /\ PathsIdle /\ RenderIdle

NextCsv == ParseResponse /\ UNCHANGED <<routeVars, tagVars, coerceVars, cacheVars, ingestVars,
        queryVars, boxVars, metaVars, scanVars, submitVars, selectVars, pathVars, renderVars>>

SpecCsv == InitCsv /\ [][NextCsv]_vars

----------------------------------------------------------------------------
(* Properties.                                                             *)

\* lexical resolution of directory components below the cache root: the
\* depth below the root after each component, -1 once the path has left it
RECURSIVE DepthBelowRoot(_, _)
DepthBelowRoot(parts, d) ==
    IF parts = <<>> \/ d < 0 THEN d
    ELSE IF Head(parts) = <<".", ".">> THEN DepthBelowRoot(Tail(parts), d - 1)
    ELSE IF Head(parts) = <<".">> THEN DepthBelowRoot(Tail(parts), d)
    ELSE DepthBelowRoot(Tail(parts), d + 1)

\* C1: for every composite key the path of snapshot_cache_path lies inside
\* the cache root: no directory component is "." or ".." or contains a path
\* separator.
C1_PathInsideRoot ==
    cache_step = 1 =>
        /\ DepthBelowRoot(cache_parts, 0) >= 0
        /\ \A i \in 1..Len(cache_parts) :
            /\ cache_parts[i] \notin {<<".">>, <<".", ".">>}
            /\ Range(cache_parts[i]) \cap {"/", "\\"} = {}

\* C2: the ingest endpoint answers every request with the 204 response,
\* whatever the body and whatever the outcome of each outbound write.
C2_AlwaysNoContent == pc = "done" => status = 204

\* C3: _coerce_int never raises: it returns the truncated float conversion of
\* a numeric-like value and the default for every other value, NaN and the
\* infinities included.
C3_CoerceIntTotal ==
    co_step = 1 =>
        co_result = Returned(IF FloatOf(co_value).cls = "fin"
                             THEN Trunc(FloatOf(co_value).t) ELSE co_default)

AttemptsOf(i) == {j \in 1..Len(sent) : sent[j].stmt = i}

\* C4: for each statement handed to the write gateway at most one outbound
\* write attempt is made; after a transport error no second attempt follows.
C4_AtMostOneAttempt == \A i \in 1..Len(handed) : Cardinality(AttemptsOf(i)) <= 1

\* the request is an object whose type, trimmed, is "heartbeat" in any case
HeartbeatRequest ==
    /\ body.kind = "object"
    /\ body.event.type.k = "str"
    /\ Lower(Strip(body.event.type.s, Whitespace)) = Heartbeat

\* C5: a request whose trimmed type equals "heartbeat" in any letter case
\* causes no outbound write (no statement is handed over, no attempt is made)
\* and is answered with 204.
C5_HeartbeatNoWrite ==
    HeartbeatRequest => pc = "done" /\ status = 204 /\ handed = <<>> /\ sent = <<>>

C5_Witness ==
    /\ HeartbeatRequest
    /\ body.event.type.s # Heartbeat
    /\ body.event.depth = JInf
    /\ status = 204

\* a raw bin that is present, numeric and not below 0
BinGiven(raw) ==
    /\ raw.k \in {"num", "str"}
    /\ FloatOf(raw).cls = "fin"
    /\ FloatOf(raw).t >= 0

ClickRequest ==
    /\ body.kind = "object"
    /\ body.event.type.k = "str"
    /\ Strip(body.event.type.s, Whitespace) = Click

\* C6: an ingested click event produces exactly two statements when x_bin and
\* y_bin are both present and >= 0, exactly one (the generic one) otherwise;
\* no click-aggregate statement for a click with a bin below 0.
C6_ClickStatementCount ==
    (pc = "done" /\ ClickRequest) =>
        IF BinGiven(body.event.x_bin) /\ BinGiven(body.event.y_bin)
        THEN Len(handed) = 2 /\ handed[1].m = "logflow" /\ handed[2].m = "logflow_click"
        ELSE Len(handed) = 1 /\ handed[1].m = "logflow"

\* C7: route normalization is idempotent: normalising a normalised route
\* gives the same route.
C7_RouteIdempotent == route_step = 2 => route_twice = route_once

C7_Witness ==
    /\ route_step = 2
    /\ Truthy(route_raw)
    /\ ~StartsWith(route_raw.s, "/")
    /\ EndsWith(route_raw.s, "/")
    /\ SegmentSub(RoutePrepared(route_raw.s)) # RoutePrepared(route_raw.s)

\* the segments of a path that starts with a slash, trailing empty segments
\* (trailing slashes) left out
RECURSIVE DropTrailingEmpty(_)
DropTrailingEmpty(segs) ==
    IF segs # <<>> /\ segs[Len(segs)] = <<>>
    THEN DropTrailingEmpty(SubSeq(segs, 1, Len(segs) - 1)) ELSE segs

SegmentsOf(path) == DropTrailingEmpty(Tail(Split(path, "/")))

\* a whole segment that is fully numeric or made of 12 or more hex characters
\* becomes :id, every other segment stays
WholeSegmentRule(seg) ==
    IF seg # <<>> /\ (Range(seg) \subseteq Digits
                      \/ (Range(seg) \subseteq HexChars /\ Len(seg) >= HexMin))
    THEN <<":", "i", "d">> ELSE seg

RouteShape(path) ==
    /\ path # <<>>
    /\ StartsWith(path, "/")
    /\ "?" \notin Range(path)
    /\ (EndsWith(path, "/") => path = <<"/">>)

\* C9: the output of route normalization is a non-empty string that starts
\* with a slash, contains no question mark, and does not end with a slash
\* unless it is exactly "/".
C9_RouteShape ==
    /\ route_step >= 1 => RouteShape(route_once)
    /\ route_step = 2 => RouteShape(route_twice)

C9_Witness ==
    /\ route_step = 1
    /\ Truthy(route_raw)
    /\ "?" \in Range(route_raw.s)
    /\ Len(BeforeFirst(route_raw.s, "?")) > 1
    /\ EndsWith(BeforeFirst(route_raw.s, "?"), "/")
    /\ route_once # <<"/">>

\* the comma, space and equals characters of s that no backslash escapes
RECURSIVE BareSeparators(_)
BareSeparators(s) ==
    IF s = <<>> THEN 0
    ELSE IF Head(s) = "\\" /\ Len(s) >= 2 /\ s[2] \in EscapedChars
         THEN BareSeparators(SubSeq(s, 3, Len(s)))
    ELSE (IF Head(s) \in {",", " ", "="} THEN 1 ELSE 0) + BareSeparators(Tail(s))

\* C10: tag escaping round-trips: unescaping _escape_tag(s) recovers s, and
\* every comma, equals sign and space of _escape_tag(s) is preceded by an
\* escaping backslash.
C10_TagRoundTrip ==
    tag_step = 1 =>
        /\ Unescape(tag_escaped) = tag_value
        /\ BareSeparators(tag_escaped) = 0

C10_Witness ==
    /\ tag_step = 1
    /\ {"\\", ",", " ", "="} \subseteq Range(tag_value)
    /\ Len(tag_escaped) = 2 * Len(tag_value)

\* the heatmap page has been answered from a store reply
HeatDone == q_pc = "done" /\ req.endpoint = "heatmap"

\* every arrangement of the rows of a list
Arrangements(rows) ==
    LET n == Len(rows)
        bijections == {f \in [1..n -> 1..n] : \A i, j \in 1..n : f[i] = f[j] => i = j}
    IN  {[i \in 1..n |-> rows[f[i]]] : f \in bijections}

\* C11: the heatmap aggregator is input-order independent: every permutation
\* of the row list yields the same raw grid, max_count, total_count and
\* normalized grid.
C11_OrderIndependent ==
    HeatDone => \A p \in Arrangements(q_rows) : HeatAnswer(p, req.dims) = q_res

CellValues(grid) == {grid[y][x] : y \in DOMAIN grid, x \in UNION {DOMAIN grid[y] : y \in DOMAIN grid}}

MaxOf(S) == CHOOSE m \in S : \A n \in S : n <= m

\* C12: after aggregating any list of rows, max_count is the largest cell of
\* the final raw grid (0 for an empty input) and every cell of the raw grid
\* is a non-negative integer.
C12_MaxIsLargestCell ==
    (HeatDone /\ q_res.status = 200) =>
        /\ q_res.max_count = MaxOf(CellValues(q_res.raw))
        /\ \A c \in CellValues(q_res.raw) : c >= 0
        /\ q_rows = <<>> => q_res.max_count = 0

\* C13: the normalized grid has the requested rows x cols shape, each cell is
\* the raw cell divided by max_count when max_count is positive and 0 when it
\* is zero, nothing divides by zero, and every normalized cell lies in [0,1].
C13_NormalizedGrid ==
    HeatDone =>
        /\ q_res.status = 200 \/ q_res.raised # "ZeroDivisionError"
        /\ q_res.status = 200 =>
             /\ DOMAIN q_res.grid = 0..(req.dims[2] - 1)
             /\ \A y \in DOMAIN q_res.grid :
                  /\ DOMAIN q_res.grid[y] = 0..(req.dims[1] - 1)
                  /\ \A x \in DOMAIN q_res.grid[y] :
                       LET cell == q_res.grid[y][x]
                       IN  /\ cell[2] > 0
                           /\ IF q_res.max_count > 0
                              THEN cell[1] * q_res.max_count = q_res.raw[y][x] * cell[2]
                              ELSE cell[1] = 0
                           /\ 0 <= cell[1] /\ cell[1] <= cell[2]

\* what the row contract says of a row: it counts when its three values are
\* finite numbers and its bins lie in [0, cols) x [0, rows)
RowCounts(entry, cols, rows) ==
    LET x == FloatOf(Get(entry.x_bin))
        y == FloatOf(Get(entry.y_bin))
        c == FloatOf(CountValue(entry))
    IN  /\ x.cls = "fin" /\ y.cls = "fin" /\ c.cls = "fin"
        /\ 0 <= x.t /\ x.t < 10 * cols
        /\ 0 <= y.t /\ y.t < 10 * rows

RECURSIVE ContractGrid(_, _, _)
ContractGrid(raw_rows, cols, rows) ==
    IF raw_rows = <<>> THEN ZeroGrid(cols, rows)
    ELSE LET entry == raw_rows[Len(raw_rows)]
             before == ContractGrid(SubSeq(raw_rows, 1, Len(raw_rows) - 1), cols, rows)
             x == Trunc(FloatOf(Get(entry.x_bin)).t)
             y == Trunc(FloatOf(Get(entry.y_bin)).t)
         IN  IF RowCounts(entry, cols, rows)
             THEN [before EXCEPT ![y][x] = @ + Trunc(FloatOf(CountValue(entry)).t)]
             ELSE before

RECURSIVE SumSeq(_)
SumSeq(ns) == IF ns = <<>> THEN 0 ELSE Head(ns) + SumSeq(Tail(ns))

GridTotal(grid, cols, rows) ==
    SumSeq([i \in 1..(cols * rows) |-> grid[(i - 1) \div cols][(i - 1) % cols]])

\* C14: a row adds its count to cell (x_bin, y_bin) exactly when its three
\* values coerce to numbers and the bins are in range; every other row is
\* dropped without raising and without changing the grid; rows of one bin
\* add up, and total_count is the sum of all cells.
C14_RowContract ==
    HeatDone =>
        /\ q_res.status = 200
        /\ q_res.raw = ContractGrid(q_rows, req.dims[1], req.dims[2])
        /\ q_res.total_count = GridTotal(q_res.raw, req.dims[1], req.dims[2])

\* the characters a cache path component may be made of
SegmentChars == Digits \cup Range(UpperSeq) \cup Range(LowerSeq) \cup {".", "_", "-"}

\* C15: safe_cache_segment maps every input string to a non-empty string of
\* at most 80 characters made only of A-Z, a-z, 0-9, '.', '_' and '-'.
C15_SegmentAlphabet ==
    cache_step = 1 =>
        \A i \in 1..Len(cache_parts) :
            /\ cache_parts[i] # <<>>
            /\ Len(cache_parts[i]) <= MaxSegmentLen
            /\ Range(cache_parts[i]) \subseteq SegmentChars

\* a raw box the sanitizer is meant to keep: an object whose four values are
\* numbers, with a positive width and height
Positive(v) == FloatOf(Get(v)).cls = "inf" \/ (FloatOf(Get(v)).cls = "fin" /\ FloatOf(Get(v)).t > 0)

Numeric(v) == FloatOf(Get(v)).cls \in {"fin", "inf", "ninf", "nan"}

ValidBox(raw) ==
    /\ raw.isdict
    /\ Numeric(raw.x) /\ Numeric(raw.y)
    /\ Positive(raw.w) /\ Positive(raw.h)

\* C16: the sanitized box list has no box with w <= 0 or h <= 0, has at most
\* 240 boxes (exactly 240 when the input holds more than 240 valid boxes) and
\* is ordered by non-increasing area w*h: no box is followed by a larger one.
C16_BoxListOrdered ==
    box_step = 1 =>
        /\ \A i \in 1..Len(boxes) : ~NotPositive(boxes[i].w) /\ ~NotPositive(boxes[i].h)
        /\ Len(boxes) <= BoxLimit
        /\ Len(SelectSeq(raw_boxes, ValidBox)) > BoxLimit => Len(boxes) = BoxLimit
        /\ \A i, j \in 1..Len(boxes) : i < j => ~Less(Area(boxes[i]), Area(boxes[j]))

InUnit(f) == f.cls = "fin" /\ 0 <= f.t /\ f.t <= 10

\* the kind the vocabulary rule gives a raw box
KindRule(raw) ==
    IF raw.kind.k = "str" /\ Lower(raw.kind.s) \in ValidKinds THEN Lower(raw.kind.s) ELSE Panel

\* C17: every kept box has x, y, w and h within [0,1] whatever number the
\* input carried, and a kind of the fixed vocabulary, an unrecognized or
\* missing kind being replaced by "panel".
C17_BoxWithinUnit ==
    box_step = 1 =>
        /\ \A i \in 1..Len(boxes) :
             /\ InUnit(boxes[i].x) /\ InUnit(boxes[i].y)
             /\ InUnit(boxes[i].w) /\ InUnit(boxes[i].h)
             /\ boxes[i].kind \in ValidKinds
        /\ (Len(raw_boxes) = 1 /\ Len(boxes) = 1) => boxes[1].kind = KindRule(raw_boxes[1])

\* a request that queried the store has been answered to the caller
StoreDone ==
    /\ q_pc = "done"
    /\ req.endpoint \in {"heatmap", "summary", "top_routes", "series"}
    /\ q_effects # <<>>

\* the posts to the store among the effects
StorePosts == SelectSeq(q_effects, LAMBDA e : e.op = "store_post")

\* C18: when the store query fails (transport error or status >= 400) the
\* heatmap path gets no rows and renders an all-zero grid with max_count 0,
\* the API endpoints answer 502, and neither path retries the query.
C18_QueryFailure ==
    StoreDone =>
        /\ Len(StorePosts) = 1
        /\ (Failed(q_outcome) /\ req.endpoint = "heatmap") =>
             /\ q_rows = <<>>
             /\ q_res.status = 200
             /\ q_res.max_count = 0
             /\ q_res.raw = ZeroGrid(req.dims[1], req.dims[2])
             /\ \A y \in DOMAIN q_res.grid : \A x \in DOMAIN q_res.grid[y] : q_res.grid[y][x][1] = 0
        /\ (Failed(q_outcome) /\ req.endpoint # "heatmap") => q_res.status = 502

C18_Witness ==
    /\ StoreDone
    /\ req.endpoint = "heatmap"
    /\ q_outcome.status = 503
    /\ q_res.status = 200
    /\ q_res.max_count = 0

\* the host of a netloc: what follows the user information, up to the port
RECURSIVE AfterLast(_, _)
AfterLast(t, sep) ==
    IF \E i \in 1..Len(t) : t[i] = sep THEN AfterLast(Tail(t), sep) ELSE t

HostOf(netloc) == BeforeFirst(AfterLast(netloc, "@"), ":")

\* the capture URL the validation rule accepts: http or https, with a host
CaptureUrlOk(url) ==
    /\ UrlParse(url).scheme \in {<<"h", "t", "t", "p">>, <<"h", "t", "t", "p", "s">>}
    /\ HostOf(UrlParse(url).netloc) # <<>>

\* the bucket token the validation rule accepts: digits, then one unit
BucketOk(bucket) ==
    /\ Len(bucket) >= 2
    /\ \A i \in 1..(Len(bucket) - 1) : bucket[i] \in RegexDigits
    /\ bucket[Len(bucket)] \in BucketUnits

\* C19: a validation failure is reported before any side effect: a capture
\* request whose URL scheme is not http/https or whose host is empty gets 400
\* with no call to the worker and no cache directory or metadata created, a
\* series query whose bucket is not digits followed by one of s, m, h, d
\* gets 400 with no query sent to the store.
C19_ValidationFirst ==
    /\ (req.endpoint = "capture" /\ ~CaptureUrlOk(Strip(req.url, Whitespace))) =>
          q_pc = "done" /\ q_res.status = 400 /\ q_effects = <<>>
    /\ (req.endpoint = "series" /\ ~BucketOk(req.bucket)) =>
          q_pc = "done" /\ q_res.status = 400 /\ q_effects = <<>>

\* C20: a metadata write is a full overwrite and the last write wins: after
\* any sequence or interleaving of completed writes for one cache key, a read
\* returns exactly the mapping of the last completed write, with no key or
\* value carried over from an earlier write.
C20_LastWriteWins ==
    meta_last.set =>
        /\ ReadSnapshotMetadata(meta_file) = meta_last.metadata
        /\ DOMAIN ReadSnapshotMetadata(meta_file) = DOMAIN meta_last.metadata

\* a write of request_snapshot has completed over one of ingest_snapshot,
\* while another handler is at its await
C20_Witness ==
    /\ meta_last.set
    /\ meta_last.metadata \in CaptureMetas
    /\ meta_writes = MaxWrites
    /\ meta_pending["ingest_snapshot"].set
    /\ meta_read \in IngestMetas
    /\ ReadSnapshotMetadata(meta_file) = meta_last.metadata

\* the file gives no metadata: missing, not valid JSON, or JSON that is not
\* an object
NoMetadata(file) == file.kind \in {"missing", "cut", "value"}

\* the entries a scan must return: the objects, those with another
\* snapshot_hash left out when a filter is given
ScanKept(file, snapshot_hash) ==
    /\ file.kind = "json"
    /\ Truthy(snapshot_hash) =>
         /\ "snapshot_hash" \in DOMAIN file.members
         /\ Loads(file.members)["snapshot_hash"] = snapshot_hash

ScanExpected(files, snapshot_hash) ==
    LET kept == SelectSeq(files, LAMBDA f : ScanKept(f, snapshot_hash))
    IN  [i \in 1..Len(kept) |-> Loads(kept[i].members)]

\* C21: reading snapshot metadata never raises: when meta.json is missing,
\* is not valid JSON, or holds JSON that is not an object, the single-key
\* read and the snapshot-media lookup return an empty result, and the
\* cache-wide scan (with or without a snapshot_hash filter) skips the entry.
C21_ReadNeverRaises ==
    /\ scan_outcome.raised = "none"
    /\ (scan_op = "read" /\ NoMetadata(scan_disk[1])) => scan_outcome.val = EmptyMapping
    /\ (scan_op = "media" /\ NoMetadata(scan_disk[1])) => scan_outcome.val = MediaDefaults
    /\ scan_op = "scan" => scan_outcome.val = ScanExpected(scan_disk, scan_filter)

\* a raw box with positive width and height
PositiveBox(raw) == raw.isdict /\ Positive(raw.w) /\ Positive(raw.h)

\* the skeleton of the body cannot be rendered: the body is not an object,
\* the skeleton is missing or not a mapping, or no box has positive width
\* and height
CannotRender(b) ==
    \/ b.shape # "dict"
    \/ b.skeleton.shape # "dict"
    \/ b.skeleton.boxes_kind # "list"
    \/ \A i \in 1..Len(b.skeleton.items) : ~PositiveBox(b.skeleton.items[i])

\* C22: the snapshot-submission endpoint answers 204 for every body, and
\* when the skeleton cannot be rendered it creates or changes no content
\* file and no metadata file in the cache.
C22_SubmitFireAndForget ==
    sub_pc \in {"submitted", "looked"} =>
        /\ sub_status = 204
        /\ CannotRender(sub_body) => sub_disk = sub_before

\* the lookup names the identifiers as the submitted body did (the body
\* using the keys route, snapshot_hash, vp_bucket, grid_id and section)
SameIdentifiers(b, q) ==
    /\ b.path = JAbsent /\ b.url = JAbsent /\ b.route_norm = JAbsent
    /\ b.vp = JAbsent /\ b.grid = JAbsent
    /\ q.route = b.route
    /\ q.snapshot = b.snapshot_hash
    /\ q.vp = b.vp_bucket
    /\ q.grid = b.grid_id
    /\ q.section = b.section

\* the submission stored its page
SnapshotStored(b, disk) ==
    /\ b.shape = "dict"
    /\ b.skeleton.shape = "dict"
    /\ RenderSkeletonHtml(b.skeleton).raised = "none"
    /\ EntryAt(disk, PathOf(SubmitKey(b))).html = File(RenderSkeletonHtml(b.skeleton).val)

\* C28: a snapshot stored by the snapshot-submission endpoint under
\* identifiers (route, snapshot_hash, vp_bucket, grid_id, section) is found
\* (no 404) by heatmap/media when called with the same route, snapshot, vp,
\* grid and section values, also when grid and section are omitted in both
\* requests and when grid is not a "ColsxRows" token.
C28_StoredIsFound ==
    (sub_pc = "looked" /\ SnapshotStored(sub_body, sub_disk) /\ SameIdentifiers(sub_body, media_req))
        => media_status # NotFound

\* the request is an object that is no heartbeat
EventRequest == body.kind = "object" /\ ~IsHeartbeat(EventType(body.event.type))

\* a value that is present and converts to an integer number of milliseconds
Parseable(v) == v.k # "absent" /\ FloatOf(v).cls = "fin"

Millis(v) == Trunc(FloatOf(v).t)

\* the timestamp the resolution order gives
ResolvedTimestamp(event) ==
    IF Parseable(event.ts) THEN Millis(event.ts)
    ELSE IF Parseable(event.timestamp) THEN Millis(event.timestamp)
    ELSE Now

\* nothing but ts and timestamp can make the handler fail
OtherValuesConvert(event) ==
    /\ CoerceInt(Get(event.depth), 0).raised = "none"
    /\ \A name \in {"x", "y", "pageX", "pageY"} : CoordValue(event, name).raised = "none"
    /\ PayloadBin(event.x_bin).raised = "none"
    /\ PayloadBin(event.y_bin).raised = "none"

\* C23: the timestamp of every statement of an event is resolved in the
\* order ts, then timestamp, then ingestion wall clock, the first parseable
\* value winning; an unparseable or null ts falls through to a parseable
\* timestamp; the generic and the click-aggregate statement of one event
\* carry the same timestamp.
C23_TimestampOrder ==
    (pc # "idle" /\ EventRequest /\ OtherValuesConvert(body.event)) =>
        /\ handed # <<>>
        /\ \A i \in 1..Len(handed) : handed[i].ts = ResolvedTimestamp(body.event)

\* the coordinate fields a statement should carry: each one exactly when its
\* own raw value is present
OwnCoords(event, names, rawOf) ==
    [f \in {g \in names : ~IsNone(RawCoord(event, rawOf[g]))}
        |-> IF FloatOf(RawCoord(event, rawOf[f])).cls = "fin"
            THEN Trunc(FloatOf(RawCoord(event, rawOf[f])).t) ELSE 0]

DebugFieldOf == [x |-> "x", y |-> "y", pageX |-> "pageX", pageY |-> "pageY"]

\* C24: presence of the coordinate sub-fields is tracked independently: in
\* the generic statement and in the debug payload each of x, y, pageX, pageY
\* (fields cx, cy, px, py) is emitted if and only if its own raw value was
\* present in coords, also when it coerces to 0, and never because another
\* coordinate was present.
C24_CoordsIndependent ==
    handed # <<>> =>
        /\ handed[1].coords = OwnCoords(body.event, {"cx", "cy", "px", "py"}, LineFieldOf)
        /\ handed[1].debug = OwnCoords(body.event, {"x", "y", "pageX", "pageY"}, DebugFieldOf)

\* the query names site, route, snapshot, vp, grid and section as the event
\* did (the event giving no route_norm of its own)
SameTags(event, q) ==
    /\ event.route_norm = JAbsent
    /\ q.site = event.site
    /\ q.route = event.route
    /\ q.snapshot = event.snapshot_hash
    /\ q.vp = event.vp_bucket
    /\ q.grid = event.grid_id
    /\ q.section = event.section

\* the store holds the click-aggregate statement of the event
ClickStored == \E i \in 1..Len(sel_store) : sel_store[i].m = "logflow_click"

\* C29: a click event ingested with in-range x_bin and y_bin is selected by
\* a later heatmap query for the same site, route and snapshot: the tags of
\* the click-aggregate statement satisfy the tag filters the query builds,
\* in particular when the event carried no grid_id and the query carries no
\* grid parameter.
C29_ClickSelected ==
    (sel_pc = "queried" /\ ClickStored /\ SameTags(sel_event, sel_query)) => sel_rows # <<>>

\* C30: two composite keys that differ in at least one component after route
\* normalization map to different cache paths, so a snapshot stored for one
\* key never overwrites or is served for another key (for example routes
\* "/" and "/root", or segments "a/b" and "a__b").
C30_DistinctPaths == (paths_step = 2 /\ key_a # key_b) => parts_a # parts_b

\* a walk of a list of siblings has returned
SiblingsWalked == render_pc = "walked"

\* the markup of a list cut short: that of the siblings handed to
\* _render_node, as a list of their own, and one truncation placeholder
OnePlaceholder(nodes, count, walk) ==
    walk.html = RenderChildren(SubSeq(nodes, 1, walk.taken), count).html \o <<SnapshotTruncated>>

\* C25: during a tree-walker render the number of counted nodes never exceeds
\* the node budget of 4000; once the budget is reached no further node is
\* rendered or descended into, the remaining siblings are replaced by a single
\* truncation placeholder, and the render terminates for every finite tree.
C25_NodeBudget ==
    SiblingsWalked =>
        /\ render_out.raised = "none"
        /\ render_out.count <= MaxSerializedNodes
        /\ render_out.count >= render_in.count
        /\ render_in.count = MaxSerializedNodes => render_out.taken = 0
        /\ render_out.truncated <=> render_out.taken < Len(render_in.nodes)
        /\ render_out.truncated =>
              /\ render_out.count = MaxSerializedNodes
              /\ OnePlaceholder(render_in.nodes, render_in.count, render_out)
        /\ ~render_out.truncated /\ render_out.count < MaxSerializedNodes =>
              \A i \in 1..Len(render_out.html) : render_out.html[i] # SnapshotTruncated

\* a walk that counted nodes, reached the budget and left siblings out
C25_Witness ==
    /\ SiblingsWalked
    /\ render_in.count < MaxSerializedNodes
    /\ render_out.count = MaxSerializedNodes
    /\ render_out.taken >= 1
    /\ render_out.taken < Len(render_in.nodes)
    /\ render_out.truncated

\* a renderer has returned markup
MarkupReturned == render_pc \in {"walked", "built", "flat"} /\ render_out.raised = "none"

EntityTexts ==
    { <<"&", "a", "m", "p", ";">>, <<"&", "l", "t", ";">>, <<"&", "g", "t", ";">>,
      <<"&", "q", "u", "o", "t", ";">>, <<"&", "#", "x", "2", "7", ";">> }

\* no <, > or " in the text, and every & begins an entity
IsEscaped(text) ==
    \A i \in 1..Len(text) :
        /\ text[i] \notin {"<", ">", "\""}
        /\ text[i] = "&" => \E e \in EntityTexts : SubSeq(text, i, i + Len(e) - 1) = e

\* the contents of the text nodes of a list of nodes
RECURSIVE TextsOf(_)
TextsOf(nodes) ==
    UNION { (IF nodes[i].type = 3 THEN {Strip(nodes[i].textContent, Whitespace)} ELSE {})
            \cup TextsOf(nodes[i].childNodes) : i \in 1..Len(nodes) }

\* C26: every caller-supplied string that the renderers embed in their markup
\* (tree-walker tag names, label attributes, colspan/rowspan values and banner
\* label; flat-box kind and label) is HTML-escaped first, so no '<', '>', '&'
\* or '"' taken from the input reaches the output unescaped, and the content
\* of text nodes is never echoed.
C26_EmbeddedEscaped ==
    MarkupReturned =>
        \A i \in 1..Len(render_out.html) :
            render_out.html[i].kind = "embedded" =>
                /\ IsEscaped(render_out.html[i].text)
                /\ \A text \in TextsOf(render_in.nodes) \ {<<>>} :
                      render_out.html[i].text \notin {text, HtmlEscape(text)}

\* the response has been parsed; the rows the reader gave
Parsed == csv_pc = "parsed"
ReadRows == CsvReader(csv_text)

\* a row without columns, or an annotation
Ignored(row) == row = <<>> \/ (row[1] # <<>> /\ row[1][1] = "#")

\* a row whose first two columns are "result" and "table"
ResultTable(row) == Len(row) >= 2 /\ row[1] = ResultName /\ row[2] = TableName

\* the places of the rows that are headers by their columns, and the one in
\* force at place i
Headers(reader) == {j \in 1..Len(reader) : ~Ignored(reader[j]) /\ ResultTable(reader[j])}
Latest(places, i) == {j \in places : j < i /\ \A k \in places : k < i => k <= j}

\* the mapping of a row under a header: the header's names, each with the
\* value of the row in its column (the last such column for a repeated name)
Keyed(header, row, mapping) ==
    /\ {mapping[p].name : p \in 1..Len(mapping)} = Range(header)
    /\ \A p, q \in 1..Len(mapping) :
          p < q => \E a, b \in 1..Len(header) :
                      /\ a < b
                      /\ header[a] = mapping[p].name
                      /\ header[b] = mapping[q].name
                      /\ \A c \in 1..(a - 1) : header[c] # header[a]
                      /\ \A c \in 1..(b - 1) : header[c] # header[b]
    /\ \A p \in 1..Len(mapping) :
          \E a \in 1..Len(header) :
              /\ header[a] = mapping[p].name
              /\ \A c \in (a + 1)..Len(header) : header[c] # header[a]
              /\ mapping[p].value = row[a]

\* the places of the rows that give a mapping when the rows at places
\* `headers` are the headers
DataPlaces(reader, headers) ==
    {i \in 1..Len(reader) :
        /\ ~Ignored(reader[i])
        /\ i \notin headers
        /\ \E j \in Latest(headers, i) : Len(reader[j]) = Len(reader[i])}

\* the mappings are those of the data rows, in their order
MappingsOf(reader, headers, rows) ==
    /\ Len(rows) = Cardinality(DataPlaces(reader, headers))
    /\ \A i \in DataPlaces(reader, headers) :
          \E j \in Latest(headers, i) :
              Keyed(reader[j], reader[i],
                    rows[Cardinality({k \in DataPlaces(reader, headers) : k <= i})])

\* C27: the query response parser returns one mapping per data row whose
\* column count equals that of the current header, keyed exactly by the
\* header's column names in order; empty rows, rows whose first column starts
\* with '#', header rows (first two columns "result","table") and rows with a
\* different column count yield no mapping, and a later header row replaces
\* the earlier one for the rows that follow it.
C27_OneMappingPerDataRow == Parsed => MappingsOf(ReadRows, Headers(ReadRows), csv_rows)

\* the headers as the parser takes them: the rows with "result" and "table"
\* first and, when rows come before the first of them, the first row that is
\* neither empty nor an annotation
Kept(reader) == {j \in 1..Len(reader) : ~Ignored(reader[j])}
HeadersOrFirst(reader) ==
    Headers(reader) \cup {j \in Kept(reader) : \A k \in Kept(reader) : j <= k}

\* C27 as the parser does it: the same, a row that is neither empty nor an
\* annotation being a header row also when no header came before it.
C27_FirstRowIsHeader == Parsed => MappingsOf(ReadRows, HeadersOrFirst(ReadRows), csv_rows)

\* a response of three rows: a "result","table" header in second place, which
\* replaces whatever the first row set, and a row of its width after it that
\* gave the one mapping
C27_Witness ==
    /\ Parsed
    /\ Len(ReadRows) = 3
    /\ ResultTable(ReadRows[2])
    /\ ~ResultTable(ReadRows[1])
    /\ Len(csv_rows) = 1
    /\ Len(ReadRows[3]) = Len(ReadRows[2])

====
